---------------------------- MODULE Spec2Model ----------------------------
(***************************************************************************)
(* Witness session lifecycle (internal/witness/manager.go) over a tmux     *)
(* backend, together with the runtime helpers it calls                     *)
(* (internal/runtime, internal/config/copilot.go).                         *)
(*                                                                         *)
(* Strings the code parses are sequences of lexemes: an environment        *)
(* override "K=a" is <<"K", "=", "a">>, a command line is the sequence of  *)
(* its whitespace-separated fields.                                        *)
(***************************************************************************)
EXTENDS Integers, Sequences, FiniteSets, TLC

VARIABLES
    sessions,   \* tmux: the set of live sessions (records)
    hooksFile,  \* the runtime hook settings under <rig>/witness
    trustFile,  \* copilot's trusted_folders document: the set of trusted paths
    rc,         \* config.ResolveRoleAgentConfig("witness", townRoot, rigPath)
    roleBead,   \* the witness role bead's config (beads.RoleConfig) or Nil
    calls,      \* number of Start/Stop calls begun so far
    pc,         \* per caller: position inside Start
    args,       \* per caller: Start's arguments
    loc,        \* per caller: Start's local variables
    log,        \* per caller: backend/file operations issued by the current call
    result,     \* per caller: the value the call returned
    faults      \* number of backend/file operations that failed although they could succeed

vars == <<sessions, hooksFile, trustFile, rc, roleBead, calls, pc, args, loc, log, result,
          faults>>

-----------------------------------------------------------------------------
(* Bounds *)

MaxCalls == 2
\* how many operations may fail, over a run, for reasons of their own (a tmux error,
\* a full disk, a timeout although the prompt is shown); failures the state forces
\* (no such session, the agent not running) are not counted
MaxFaults == 1

-----------------------------------------------------------------------------
(* Program constants *)

\* manager.go:231/235-236 and runtime (part_000:70-71): the fallback floor in ms
MinNudgeDelayMs == 10000
\* runtime copilotReadyConfig default delay in ms (part_000:139-140)
CopilotDefaultReadyDelayMs == 3000

-----------------------------------------------------------------------------
(* Universe *)

Callers == {"a"}

Nil == [nil |-> TRUE]

RigName == "rig1"
WitnessDir == <<"town", RigName, "witness">>

\* fmt.Sprintf("gt-%s-witness", m.rig.Name)
SessionName == <<"gt-", RigName, "-witness">>

\* Sessions of other identities living in the same tmux server.
OtherName == <<"gt-", RigName, "-refinery">>

EmptyEnv == [k \in {} |-> <<>>]


-----------------------------------------------------------------------------
(* Strings *)

\* strings.ToLower / strings.EqualFold over the lexemes of the universe
ToLower(x) ==
    CASE x = "Copilot" -> "copilot"
      [] x = "COPILOT" -> "copilot"
      [] x = "Polecat" -> "polecat"
      [] x = "WITNESS" -> "witness"
      [] x = "OpenCode" -> "opencode"
      [] OTHER -> x

EqualFold(x, y) == ToLower(x) = ToLower(y)

\* filepath.Base of a path given by its segments
PathBase(path) == IF Len(path) = 0 THEN "." ELSE path[Len(path)]

\* strings.Cut(s, "="): the text before and after the first "="
CutIndex(s) ==
    IF \E i \in 1..Len(s) : s[i] = "="
    THEN CHOOSE i \in 1..Len(s) : s[i] = "=" /\ \A j \in 1..(i - 1) : s[j] # "="
    ELSE 0

Cut(s) ==
    LET i == CutIndex(s) IN
    IF i = 0
    THEN [ok |-> FALSE, key |-> s, value |-> <<>>]
    ELSE [ok |-> TRUE, key |-> SubSeq(s, 1, i - 1), value |-> SubSeq(s, i + 1, Len(s))]

\* beads.ExpandRolePattern(pattern, townRoot, rig, name, role) on one lexeme
ExpandLexeme(x) ==
    CASE x = "{town}" -> "town"
      [] x = "{rig}" -> RigName
      [] x = "{name}" -> ""
      [] x = "{role}" -> "witness"
      [] OTHER -> x

ExpandRolePattern(pattern) == [i \in 1..Len(pattern) |-> ExpandLexeme(pattern[i])]

ExpandCommand(fields) == [i \in 1..Len(fields) |-> ExpandRolePattern(fields[i])]

-----------------------------------------------------------------------------
(* Configuration universe *)

ClaudeRuntime ==
    [provider |-> "claude", command |-> <<"claude">>, hooks |-> "claude", readyDelayMs |-> 0]
CopilotRuntime ==
    [provider |-> "copilot", command |-> <<"copilot">>, hooks |-> "copilot", readyDelayMs |-> 0]
\* a custom agent: no provider declared, copilot named only by its binary
CustomCopilotRuntime ==
    [provider |-> "", command |-> <<"usr", "bin", "Copilot">>, hooks |-> "none",
     readyDelayMs |-> 15000]
CodexRuntime ==
    [provider |-> "codex", command |-> <<"codex">>, hooks |-> "none", readyDelayMs |-> 3000]

RuntimeConfigs == {ClaudeRuntime, CopilotRuntime, CustomCopilotRuntime, CodexRuntime}

\* the agent names config.ResolveAgentConfigWithOverride knows
AgentPreset(name) ==
    CASE name = "claude" -> ClaudeRuntime
      [] name = "copilot" -> CopilotRuntime
      [] name = "codex" -> CodexRuntime
      [] OTHER -> Nil

TemplateCommand == << <<"exec">>, <<"env">>, <<"A=1">>, <<"usr", "bin", "copilot">>, <<"{rig}">> >>

RoleEnvVars == (<<"GT_ROLE">> :> <<"{role}", "-cfg">>) @@ (<<"K">> :> <<"{rig}">>)

RoleBeads ==
    { Nil,
      [StartCommand |-> <<>>, EnvVars |-> RoleEnvVars],
      [StartCommand |-> TemplateCommand, EnvVars |-> EmptyEnv] }

AgentOverrides == {"", "copilot", "bogus"}

EnvOverrideLists ==
    { <<>>,
      << <<"K", "=", "a">>, <<"K", "=", "b", "=", "c">> >>,
      << <<"GT_ROLE", "=", "o">>, <<"K">> >> }

\* the calls of Start tried: the foreground call, each agent override without
\* environment overrides, each list of environment overrides without agent override
StartInputs ==
    {<<TRUE, "", <<>> >>}
        \cup {<<FALSE, ao, <<>> >> : ao \in AgentOverrides}
        \cup {<<FALSE, "", eo>> : eo \in EnvOverrideLists}

\* config.AgentEnv for the witness of this rig
AgentEnv == (<<"GT_ROLE">> :> <<"witness">>)

-----------------------------------------------------------------------------
(* The tmux backend, for the sessions of one server *)

HasSession(S, name) == \E s \in S : s.name = name

IsClaudeRunning(S, name) == \E s \in S : s.name = name /\ s.agent = "alive"

\* the ready prompt is on the pane: the agent runs and is not processing input
PromptVisible(S, name) == \E s \in S : s.name = name /\ s.agent = "alive" /\ ~s.busy

KillSession(S, name) == {s \in S : s.name # name}

\* tmux refuses a second session of the same name (duplicate session)
CanCreateSession(S, name) == ~HasSession(S, name)

NewSessionWithCommand(S, name, gen, command) ==
    S \cup {[name |-> name, gen |-> gen, agent |-> "starting", busy |-> FALSE,
             command |-> command, env |-> EmptyEnv]}

SetEnv(env, k, v) == [x \in (DOMAIN env) \cup {k} |-> IF x = k THEN v ELSE env[x]]

SetEnvironment(S, name, k, v) ==
    {IF s.name = name THEN [s EXCEPT !.env = SetEnv(s.env, k, v)] ELSE s : s \in S}

\* tmux.GetSessionInfo: the session's name and creation stamp
GetSessionInfo(S, name) ==
    LET s == CHOOSE x \in S : x.name = name IN [name |-> s.name, created |-> s.gen]

\* a delivered nudge puts a running agent to work until it settles
NudgeSession(S, name) ==
    {IF s.name = name /\ s.agent = "alive" THEN [s EXCEPT !.busy = TRUE] ELSE s : s \in S}

-----------------------------------------------------------------------------
(* The record of what a call did: one entry per backend or file operation *)

Ev(op, ok) == [op |-> op, key |-> <<>>, val |-> <<>>, ms |-> 0, ok |-> ok]
EnvEv(k, v, ok) == [op |-> "SetEnvironment", key |-> k, val |-> v, ms |-> 0, ok |-> ok]
SleepEv(ms) == [op |-> "Sleep", key |-> <<>>, val |-> <<>>, ms |-> ms, ok |-> TRUE]

-----------------------------------------------------------------------------
(* internal/runtime *)

isCopilotRuntime(r) ==
    IF r = Nil THEN FALSE
    ELSE IF EqualFold(r.provider, "copilot") THEN TRUE
    ELSE IF r.command = <<>> THEN FALSE
    ELSE EqualFold(PathBase(r.command), "copilot")

copilotReadyDelayMs(r) ==
    IF r = Nil THEN CopilotDefaultReadyDelayMs
    ELSE IF r.readyDelayMs = 0 THEN CopilotDefaultReadyDelayMs
    ELSE r.readyDelayMs

\* mutation: the 10 s floor of WaitForCopilotReady left out
CopilotFallbackDelayMsNoFloor(r) == copilotReadyDelayMs(r)

\* the sleep of WaitForCopilotReady after its wait timed out
CopilotFallbackDelayMs(r) ==
    LET delay == copilotReadyDelayMs(r) IN
    IF delay < MinNudgeDelayMs THEN MinNudgeDelayMs ELSE delay

\* mutation: the 10 s floor left out
PropulsionFallbackDelayMsNoFloor(r) ==
    IF r # Nil /\ r.readyDelayMs > 0 THEN r.readyDelayMs ELSE MinNudgeDelayMs

\* the sleep of Start after its wait before the propulsion nudge failed
PropulsionFallbackDelayMs(r) ==
    LET configured == IF r # Nil /\ r.readyDelayMs > 0 THEN r.readyDelayMs ELSE MinNudgeDelayMs
    IN  IF configured < MinNudgeDelayMs THEN MinNudgeDelayMs ELSE configured

\* SleepForReadyDelay: the entries it adds to the call's record
SleepForReadyDelay(r) ==
    IF r = Nil THEN <<>>
    ELSE IF r.readyDelayMs <= 0 THEN <<>>
    ELSE <<SleepEv(r.readyDelayMs)>>

isAutonomousRole(role) == role \in {"polecat", "witness", "refinery", "deacon"}

\* mutation: the role classified as it is spelled
StartupFallbackCommandsAsSpelled(role, r, hooksAvailable) ==
    IF ToLower(r.hooks) \in {"claude", "opencode"} THEN <<>>
    ELSE IF ToLower(r.hooks) = "copilot" /\ hooksAvailable THEN <<>>
    ELSE << "gt prime"
            \o (IF isAutonomousRole(role) THEN " && gt mail check --inject" ELSE "")
            \o " && gt nudge deacon session-started" >>

\* mutation: copilot taken to have its hooks whether or not the file is there
StartupFallbackCommandsCopilotQuiet(role, r, hooksAvailable) ==
    IF ToLower(r.hooks) \in {"claude", "opencode", "copilot"} THEN <<>>
    ELSE << "gt prime"
            \o (IF isAutonomousRole(ToLower(role)) THEN " && gt mail check --inject" ELSE "")
            \o " && gt nudge deacon session-started" >>

\* StartupFallbackCommands(role, rc), with the hooks file's presence as found on disk:
\* no command, or the one command the code concatenates (r.hooks is "none" for a
\* runtime without hooks)
StartupFallbackCommands(role, r, hooksAvailable) ==
    IF ToLower(r.hooks) \in {"claude", "opencode"} THEN <<>>
    ELSE IF ToLower(r.hooks) = "copilot" /\ hooksAvailable THEN <<>>
    ELSE << "gt prime"
            \o (IF isAutonomousRole(ToLower(role)) THEN " && gt mail check --inject" ELSE "")
            \o " && gt nudge deacon session-started" >>

-----------------------------------------------------------------------------
(* internal/witness: command resolution *)

OptionWords == {"-i", "-u"}
AssignWords == {"A=1", "GT_ROLE=witness"}

RECURSIVE DropExports(_)
DropExports(fields) ==
    IF Len(fields) > 1 /\ fields[1] = <<"export">>
    THEN IF \E i \in 1..Len(fields) : fields[i] = <<"&&">>
         THEN LET idx == CHOOSE i \in 1..Len(fields) :
                             fields[i] = <<"&&">> /\ \A j \in 1..(i - 1) : fields[j] # <<"&&">>
              IN  DropExports(SubSeq(fields, idx + 1, Len(fields)))
         ELSE fields
    ELSE fields

RECURSIVE DropEnvArgs(_)
DropEnvArgs(fields) ==
    IF Len(fields) = 0 THEN fields
    ELSE IF fields[1] = <<"--">> THEN Tail(fields)
    ELSE IF fields[1][1] \in OptionWords \/ fields[1][1] \in AssignWords
         THEN DropEnvArgs(Tail(fields))
    ELSE fields

\* mutation: env and its arguments removed before exec is looked for
defaultAgentOverrideEnvFirst(command) ==
    IF command = <<>> THEN ""
    ELSE LET f0 == DropExports(command)
             f1 == IF Len(f0) > 0 /\ f0[1] = <<"env">> THEN DropEnvArgs(Tail(f0)) ELSE f0
             f2 == IF Len(f1) > 0 /\ f1[1] = <<"exec">> THEN Tail(f1) ELSE f1
         IN  IF Len(f2) = 0 THEN "" ELSE PathBase(f2[1])

\* manager.go:295-332; the command is given by its fields (strings.Fields), a field by
\* its path segments
defaultAgentOverride(command) ==
    IF command = <<>> THEN ""
    ELSE LET f0 == DropExports(command)
             f1 == IF Len(f0) > 0 /\ f0[1] = <<"exec">> THEN Tail(f0) ELSE f0
             f2 == IF Len(f1) > 0 /\ f1[1] = <<"env">> THEN DropEnvArgs(Tail(f1)) ELSE f1
         IN  IF Len(f2) = 0 THEN "" ELSE PathBase(f2[1])

\* config.BuildAgentStartupCommandWithAgentOverride: export ... && <agent> <prompt>
BuildAgentStartupCommand(r, agentOverride, prompt) ==
    LET agent == IF agentOverride # "" THEN AgentPreset(agentOverride) ELSE r IN
    IF agent = Nil
    THEN [ok |-> FALSE, command |-> <<>>]
    ELSE [ok |-> TRUE,
          command |-> << <<"export">>, <<"GT_ROLE=witness">>, <<"&&">>, agent.command, prompt >>]

\* mutation: the stored template used whatever the override
buildWitnessStartCommandTemplateFirst(r, agentOverride, roleConfig) ==
    IF roleConfig # Nil /\ roleConfig.StartCommand # <<>>
    THEN [ok |-> TRUE, command |-> ExpandCommand(roleConfig.StartCommand)]
    ELSE BuildAgentStartupCommand(r, agentOverride, <<"I am Witness for ", RigName>>)

buildWitnessStartCommand(r, agentOverride, roleConfig) ==
    LET cfg == IF agentOverride # "" THEN Nil ELSE roleConfig IN
    IF cfg # Nil /\ cfg.StartCommand # <<>>
    THEN [ok |-> TRUE, command |-> ExpandCommand(cfg.StartCommand)]
    ELSE BuildAgentStartupCommand(r, agentOverride, <<"I am Witness for ", RigName>>)

\* roleConfigEnvVars: the role config's variables, expanded
roleConfigEnvVars(roleConfig) ==
    IF roleConfig = Nil THEN EmptyEnv
    ELSE [k \in DOMAIN roleConfig.EnvVars |-> ExpandRolePattern(roleConfig.EnvVars[k])]

\* mutation: the override left unread
resolveRuntimeForCopilotIgnoringOverride(r, agentOverride) == [ok |-> TRUE, rc |-> r]

\* config.resolveRuntimeForCopilot for role "witness"
resolveRuntimeForCopilot(r, agentOverride) ==
    IF agentOverride # ""
    THEN LET o == AgentPreset(agentOverride) IN [ok |-> o # Nil, rc |-> o]
    ELSE [ok |-> TRUE, rc |-> r]

\* mutation: any runtime with a command taken for copilot
config_isCopilotRuntimeByAnyCommand(r) ==
    IF r = Nil THEN FALSE
    ELSE IF EqualFold(r.provider, "copilot") THEN TRUE
    ELSE r.command # <<>>

config_isCopilotRuntime(r) ==
    IF r = Nil THEN FALSE
    ELSE IF EqualFold(r.provider, "copilot") THEN TRUE
    ELSE IF r.command = <<>> THEN FALSE
    ELSE EqualFold(PathBase(r.command), "copilot")

-----------------------------------------------------------------------------
(* State *)

NoArgs == [op |-> "", foreground |-> FALSE, agentOverride |-> "", envOverrides |-> <<>>]

\* seen: what the session was when the call looked ("absent", "zombie", "healthy");
\* info: the *tmux.SessionInfo that Status returns
NoLocals == [seen |-> "", running |-> FALSE, roleConfig |-> Nil, command |-> <<>>,
             agent |-> "", gen |-> 0, info |-> Nil]

Init ==
    /\ sessions = {[name |-> OtherName, gen |-> 0, agent |-> "alive", busy |-> FALSE,
                    command |-> <<>>, env |-> EmptyEnv]}
    /\ hooksFile \in {"missing", "malformed"}
    /\ trustFile = {}
    /\ rc \in RuntimeConfigs
    /\ roleBead \in RoleBeads
    /\ calls = 0
    /\ pc = [p \in Callers |-> "idle"]
    /\ args = [p \in Callers |-> NoArgs]
    /\ loc = [p \in Callers |-> NoLocals]
    /\ log = [p \in Callers |-> <<>>]
    /\ result = [p \in Callers |-> "none"]
    /\ faults = 0

Goto(p, label) == pc' = [pc EXCEPT ![p] = label]
Return(p, value) == /\ pc' = [pc EXCEPT ![p] = "done"]
                    /\ result' = [result EXCEPT ![p] = value]
Logged(p, events) == log' = [log EXCEPT ![p] = log[p] \o events]

\* the outcomes of an operation that can succeed only if `possible`
Outcomes(possible) ==
    {ok \in BOOLEAN : (ok => possible) /\ ((~ok /\ possible) => faults < MaxFaults)}
Charge(ok, possible) == faults' = faults + (IF ~ok /\ possible THEN 1 ELSE 0)

-----------------------------------------------------------------------------
(* Manager.Start, step by step *)

\* mutation: the foreground check left out
StartEntryForegroundAllowed(p, foreground, agentOverride, envOverrides) ==
    /\ pc[p] = "idle"
    /\ calls < MaxCalls
    /\ calls' = calls + 1
    /\ args' = [args EXCEPT ![p] = [op |-> "Start", foreground |-> foreground,
                                    agentOverride |-> agentOverride,
                                    envOverrides |-> envOverrides]]
    /\ loc' = [loc EXCEPT ![p] = [NoLocals EXCEPT !.gen = calls + 1]]
    /\ log' = [log EXCEPT ![p] = <<>>]
    /\ Goto(p, "check") /\ result' = [result EXCEPT ![p] = "none"]
    /\ UNCHANGED <<sessions, hooksFile, trustFile, rc, roleBead, faults>>

\* manager.go:98-105: entry and the foreground check
StartEntry(p, foreground, agentOverride, envOverrides) ==
    /\ pc[p] = "idle"
    /\ calls < MaxCalls
    /\ calls' = calls + 1
    /\ args' = [args EXCEPT ![p] = [op |-> "Start", foreground |-> foreground,
                                    agentOverride |-> agentOverride,
                                    envOverrides |-> envOverrides]]
    /\ loc' = [loc EXCEPT ![p] = [NoLocals EXCEPT !.gen = calls + 1]]
    /\ log' = [log EXCEPT ![p] = <<>>]
    /\ IF foreground
       THEN Return(p, "ErrForegroundDeprecated")
       ELSE Goto(p, "check") /\ result' = [result EXCEPT ![p] = "none"]
    /\ UNCHANGED <<sessions, hooksFile, trustFile, rc, roleBead, faults>>

SessionState(S) ==
    IF ~HasSession(S, SessionName) THEN "absent"
    ELSE IF IsClaudeRunning(S, SessionName) THEN "healthy" ELSE "zombie"

\* manager.go:108-119: what Start does about the session it found
SessionVerdict(running, claudeRunning) ==
    IF running
    THEN IF claudeRunning THEN "alreadyRunning" ELSE "killZombie"
    ELSE "proceed"

\* mutation: the zombie kill's error dropped, Start going on over the stale session
StartCheckSessionKillDropped(p) ==
    /\ pc[p] = "check"
    /\ \E queryOk \in Outcomes(TRUE) :
         LET running == queryOk /\ HasSession(sessions, SessionName)
             verdict == SessionVerdict(running, IsClaudeRunning(sessions, SessionName))
             asked == <<Ev("HasSession", queryOk)>>
                        \o (IF running THEN <<Ev("IsClaudeRunning", TRUE)>> ELSE <<>>)
         IN
         /\ loc' = [loc EXCEPT ![p].seen = SessionState(sessions), ![p].running = running]
         /\ CASE verdict = "alreadyRunning" ->
                   /\ Logged(p, asked)
                   /\ Return(p, "ErrAlreadyRunning")
                   /\ Charge(queryOk, TRUE)
                   /\ UNCHANGED sessions
              [] verdict = "killZombie" ->
                   \E killed \in Outcomes(TRUE) :
                      /\ Logged(p, asked \o <<Ev("KillSession", killed)>>)
                      /\ Charge(killed, TRUE)
                      /\ sessions' = IF killed THEN KillSession(sessions, SessionName)
                                     ELSE sessions
                      /\ Goto(p, "settings")
                      /\ UNCHANGED result
              [] OTHER ->
                   /\ Logged(p, asked)
                   /\ Charge(queryOk, TRUE)
                   /\ Goto(p, "settings")
                   /\ UNCHANGED <<sessions, result>>
    /\ UNCHANGED <<hooksFile, trustFile, rc, roleBead, calls, args>>

\* manager.go:107-119: HasSession (its error dropped), IsClaudeRunning, KillSession
StartCheckSession(p) ==
    /\ pc[p] = "check"
    /\ \E queryOk \in Outcomes(TRUE) :
         LET running == queryOk /\ HasSession(sessions, SessionName)
             verdict == SessionVerdict(running, IsClaudeRunning(sessions, SessionName))
             asked == <<Ev("HasSession", queryOk)>>
                        \o (IF running THEN <<Ev("IsClaudeRunning", TRUE)>> ELSE <<>>)
         IN
         /\ loc' = [loc EXCEPT ![p].seen = SessionState(sessions), ![p].running = running]
         /\ CASE verdict = "alreadyRunning" ->
                   /\ Logged(p, asked)
                   /\ Return(p, "ErrAlreadyRunning")
                   /\ Charge(queryOk, TRUE)
                   /\ UNCHANGED sessions
              [] verdict = "killZombie" ->
                   \E killed \in Outcomes(TRUE) :
                      /\ Logged(p, asked \o <<Ev("KillSession", killed)>>)
                      /\ Charge(killed, TRUE)
                      /\ IF killed
                         THEN /\ sessions' = KillSession(sessions, SessionName)
                              /\ Goto(p, "settings")
                              /\ UNCHANGED result
                         ELSE /\ UNCHANGED sessions
                              /\ Return(p, "ErrKillZombie")
              [] OTHER ->
                   /\ Logged(p, asked)
                   /\ Charge(queryOk, TRUE)
                   /\ Goto(p, "settings")
                   /\ UNCHANGED <<sessions, result>>
    /\ UNCHANGED <<hooksFile, trustFile, rc, roleBead, calls, args>>

\* runtime.EnsureSettingsForRole: does the provider's installer find work to do,
\* and can it read what is there
HooksNeedWrite(r, file) ==
    CASE r.hooks = "claude" -> file = "missing"
      [] r.hooks = "copilot" -> file \in {"missing", "partial"}
      [] OTHER -> FALSE

HooksUnreadable(r, file) == r.hooks = "copilot" /\ file = "malformed"

\* mutation: the settings error dropped like the errors of the later steps
StartEnsureSettingsBestEffort(p) ==
    /\ pc[p] = "settings"
    /\ IF HooksUnreadable(rc, hooksFile)
       THEN Goto(p, "roleConfig") /\ UNCHANGED <<hooksFile, log, result, faults>>
       ELSE IF HooksNeedWrite(rc, hooksFile)
       THEN \E written \in Outcomes(TRUE) :
            /\ Logged(p, <<Ev("WriteHooks", written)>>)
            /\ Charge(written, TRUE)
            /\ hooksFile' = IF written THEN "converged" ELSE hooksFile
            /\ Goto(p, "roleConfig") /\ UNCHANGED result
       ELSE Goto(p, "roleConfig") /\ UNCHANGED <<hooksFile, log, result, faults>>
    /\ UNCHANGED <<sessions, trustFile, rc, roleBead, calls, args, loc>>

\* manager.go:126-133
StartEnsureSettings(p) ==
    /\ pc[p] = "settings"
    /\ IF HooksUnreadable(rc, hooksFile)
       THEN Return(p, "ErrSettings") /\ UNCHANGED <<hooksFile, log, faults>>
       ELSE IF HooksNeedWrite(rc, hooksFile)
       THEN \E written \in Outcomes(TRUE) :
            /\ Logged(p, <<Ev("WriteHooks", written)>>)
            /\ Charge(written, TRUE)
            /\ IF written
               THEN hooksFile' = "converged" /\ Goto(p, "roleConfig") /\ UNCHANGED result
               ELSE UNCHANGED hooksFile /\ Return(p, "ErrSettings")
       ELSE Goto(p, "roleConfig") /\ UNCHANGED <<hooksFile, log, result, faults>>
    /\ UNCHANGED <<sessions, trustFile, rc, roleBead, calls, args, loc>>

\* manager.go:135-138 and 248-257
StartRoleConfig(p) ==
    /\ pc[p] = "roleConfig"
    /\ \E loaded \in Outcomes(TRUE) :
         /\ Charge(loaded, TRUE)
         /\ IF loaded
            THEN /\ loc' = [loc EXCEPT ![p].roleConfig = roleBead]
                 /\ Goto(p, "build")
                 /\ UNCHANGED result
            ELSE Return(p, "ErrRoleConfig") /\ UNCHANGED loc
    /\ UNCHANGED <<sessions, hooksFile, trustFile, rc, roleBead, calls, args, log>>

\* mutation: the build error looked at only after the session was created
StartBuildCommandCheckedLate(p) ==
    /\ pc[p] = "build"
    /\ LET built == buildWitnessStartCommand(rc, args[p].agentOverride, loc[p].roleConfig) IN
       IF built.ok
       THEN /\ loc' = [loc EXCEPT ![p].command = built.command,
                                  ![p].agent = IF args[p].agentOverride = ""
                                               THEN defaultAgentOverride(built.command)
                                               ELSE args[p].agentOverride]
            /\ Goto(p, "trust")
            /\ UNCHANGED <<result, sessions, log>>
       ELSE /\ Logged(p, <<Ev("NewSessionWithCommand", CanCreateSession(sessions, SessionName))>>)
            /\ sessions' = NewSessionWithCommand(sessions, SessionName, loc[p].gen, <<>>)
            /\ Return(p, "ErrBuildCommand") /\ UNCHANGED loc
    /\ UNCHANGED <<hooksFile, trustFile, rc, roleBead, calls, args, faults>>

\* manager.go:140-150
StartBuildCommand(p) ==
    /\ pc[p] = "build"
    /\ LET built == buildWitnessStartCommand(rc, args[p].agentOverride, loc[p].roleConfig) IN
       IF built.ok
       THEN /\ loc' = [loc EXCEPT ![p].command = built.command,
                                  ![p].agent = IF args[p].agentOverride = ""
                                               THEN defaultAgentOverride(built.command)
                                               ELSE args[p].agentOverride]
            /\ Goto(p, "trust")
            /\ UNCHANGED result
       ELSE Return(p, "ErrBuildCommand") /\ UNCHANGED loc
    /\ UNCHANGED <<sessions, hooksFile, trustFile, rc, roleBead, calls, args, log, faults>>

\* manager.go:152-161 with config.EnsureCopilotTrustedFolder (copilot.go:23-50)
StartTrust(p) ==
    /\ pc[p] = "trust"
    /\ LET resolved == resolveRuntimeForCopilot(rc, loc[p].agent) IN
       IF ~resolved.ok
       THEN Return(p, "ErrResolveAgent") /\ UNCHANGED <<trustFile, log, faults>>
       ELSE IF config_isCopilotRuntime(resolved.rc) /\ WitnessDir \notin trustFile
       THEN \E written \in Outcomes(TRUE) :
            /\ Logged(p, <<Ev("WriteTrust", written)>>)
            /\ Charge(written, TRUE)
            /\ IF written
               THEN trustFile' = trustFile \cup {WitnessDir} /\ Goto(p, "create")
                    /\ UNCHANGED result
               ELSE UNCHANGED trustFile /\ Return(p, "ErrTrust")
       ELSE Goto(p, "create") /\ UNCHANGED <<trustFile, log, result, faults>>
    /\ UNCHANGED <<sessions, hooksFile, rc, roleBead, calls, args, loc>>

\* manager.go:163-167
StartCreateSession(p) ==
    /\ pc[p] = "create"
    /\ \E created \in Outcomes(CanCreateSession(sessions, SessionName)) :
         /\ Logged(p, <<Ev("NewSessionWithCommand", created)>>)
         /\ Charge(created, CanCreateSession(sessions, SessionName))
         /\ IF created
            THEN /\ sessions' = NewSessionWithCommand(sessions, SessionName, loc[p].gen,
                                                      loc[p].command)
                 /\ Goto(p, "env")
                 /\ UNCHANGED result
            ELSE UNCHANGED sessions /\ Return(p, "ErrCreateSession")
    /\ UNCHANGED <<hooksFile, trustFile, rc, roleBead, calls, args, loc>>

\* the orders in which a range over a Go map may visit its keys
Orderings(m) ==
    LET n == Cardinality(DOMAIN m) IN
    {o \in [1..n -> DOMAIN m] : \A i, j \in 1..n : i # j => o[i] # o[j]}

MapCalls(m, order) == [i \in 1..Len(order) |-> <<order[i], m[order[i]]>>]

\* manager.go:189-193: the overrides that strings.Cut splits at "="
OverrideCalls(overrides) ==
    LET valid == SelectSeq(overrides, LAMBDA o : Cut(o).ok) IN
    [i \in 1..Len(valid) |-> <<Cut(valid[i]).key, Cut(valid[i]).value>>]

\* mutation: the caller's overrides applied first, so that the defaults win
EnvCallsOverridesFirst(identityOrder, roleOrder, roleConfig, overrides) ==
    OverrideCalls(overrides)
        \o MapCalls(AgentEnv, identityOrder)
        \o MapCalls(roleConfigEnvVars(roleConfig), roleOrder)

\* manager.go:181-193: the SetEnvironment calls of one Start, in program order
EnvCalls(identityOrder, roleOrder, roleConfig, overrides) ==
    MapCalls(AgentEnv, identityOrder)
        \o MapCalls(roleConfigEnvVars(roleConfig), roleOrder)
        \o OverrideCalls(overrides)

RECURSIVE ApplyEnvCalls(_, _, _, _)
ApplyEnvCalls(S, cs, failed, i) ==
    IF i > Len(cs) THEN S
    ELSE ApplyEnvCalls(IF i \in failed THEN S
                       ELSE SetEnvironment(S, SessionName, cs[i][1], cs[i][2]),
                       cs, failed, i + 1)

\* manager.go:169-193: every SetEnvironment error is dropped
StartSetEnvironment(p) ==
    /\ pc[p] = "env"
    /\ \E o1 \in Orderings(AgentEnv), o2 \in Orderings(roleConfigEnvVars(loc[p].roleConfig)) :
         LET cs == EnvCalls(o1, o2, loc[p].roleConfig, args[p].envOverrides) IN
         \E failed \in SUBSET (1..Len(cs)) :
            /\ IF HasSession(sessions, SessionName)
               THEN /\ faults + Cardinality(failed) <= MaxFaults
                    /\ faults' = faults + Cardinality(failed)
               ELSE failed = 1..Len(cs) /\ UNCHANGED faults
            /\ sessions' = ApplyEnvCalls(sessions, cs, failed, 1)
            /\ Logged(p, [i \in 1..Len(cs) |-> EnvEv(cs[i][1], cs[i][2], i \notin failed)])
    /\ Goto(p, "theme")
    /\ UNCHANGED <<hooksFile, trustFile, rc, roleBead, calls, args, loc, result>>

\* mutation: a theming failure returned instead of dropped
StartThemeFatal(p) ==
    /\ pc[p] = "theme"
    /\ \E themed \in Outcomes(HasSession(sessions, SessionName)) :
         /\ Logged(p, <<Ev("ConfigureGasTownSession", themed)>>)
         /\ Charge(themed, HasSession(sessions, SessionName))
         /\ IF themed THEN Goto(p, "waitCommand") /\ UNCHANGED result
            ELSE Return(p, "ErrTheme")
    /\ UNCHANGED <<sessions, hooksFile, trustFile, rc, roleBead, calls, args, loc>>

\* manager.go:195-197
StartTheme(p) ==
    /\ pc[p] = "theme"
    /\ \E themed \in Outcomes(HasSession(sessions, SessionName)) :
         /\ Logged(p, <<Ev("ConfigureGasTownSession", themed)>>)
         /\ Charge(themed, HasSession(sessions, SessionName))
    /\ Goto(p, "waitCommand")
    /\ UNCHANGED <<sessions, hooksFile, trustFile, rc, roleBead, calls, args, loc, result>>

\* mutation: the failed wait returns its error and leaves the session behind
StartWaitForCommandNoCleanup(p) ==
    /\ pc[p] = "waitCommand"
    /\ \E started \in Outcomes(IsClaudeRunning(sessions, SessionName)) :
         IF started
         THEN /\ Logged(p, <<Ev("WaitForCommand", TRUE)>>)
              /\ Goto(p, "acceptBypass")
              /\ UNCHANGED <<sessions, result, faults>>
         ELSE /\ Logged(p, <<Ev("WaitForCommand", FALSE)>>)
              /\ Charge(started, IsClaudeRunning(sessions, SessionName))
              /\ UNCHANGED sessions
              /\ Return(p, "ErrWaitForCommand")
    /\ UNCHANGED <<hooksFile, trustFile, rc, roleBead, calls, args, loc>>

\* manager.go:199-204: the agent must have replaced the shell; on failure the
\* session is killed (that kill's own error dropped) and the error returned
StartWaitForCommand(p) ==
    /\ pc[p] = "waitCommand"
    /\ \E started \in Outcomes(IsClaudeRunning(sessions, SessionName)) :
         IF started
         THEN /\ Logged(p, <<Ev("WaitForCommand", TRUE)>>)
              /\ Goto(p, "acceptBypass")
              /\ UNCHANGED <<sessions, result, faults>>
         ELSE \E killed \in BOOLEAN :
              /\ killed => HasSession(sessions, SessionName)
              /\ Logged(p, <<Ev("WaitForCommand", FALSE),
                             Ev("KillSessionWithProcesses", killed)>>)
              /\ Charge(started, IsClaudeRunning(sessions, SessionName))
              /\ sessions' = IF killed THEN KillSession(sessions, SessionName) ELSE sessions
              /\ Return(p, "ErrWaitForCommand")
    /\ UNCHANGED <<hooksFile, trustFile, rc, roleBead, calls, args, loc>>

\* manager.go:206-207
StartAcceptBypass(p) ==
    /\ pc[p] = "acceptBypass"
    /\ \E accepted \in Outcomes(HasSession(sessions, SessionName)) :
         /\ Logged(p, <<Ev("AcceptBypassPermissionsWarning", accepted)>>)
         /\ Charge(accepted, HasSession(sessions, SessionName))
    /\ Goto(p, "copilotReady")
    /\ UNCHANGED <<sessions, hooksFile, trustFile, rc, roleBead, calls, args, loc, result>>

\* mutation: the runtime not looked at, every session waited for
WaitForCopilotReadyAnyRuntime(r, ready) ==
    IF ready THEN <<Ev("WaitForRuntimeReady", TRUE)>>
    ELSE <<Ev("WaitForRuntimeReady", FALSE), SleepEv(CopilotFallbackDelayMs(r))>>

\* runtime.WaitForCopilotReady: the entries it adds to the call's record
\* (none for another runtime; the wait, and on its timeout the fallback sleep)
WaitForCopilotReady(r, ready) ==
    IF ~isCopilotRuntime(r) THEN <<>>
    ELSE IF ready THEN <<Ev("WaitForRuntimeReady", TRUE)>>
    ELSE <<Ev("WaitForRuntimeReady", FALSE), SleepEv(CopilotFallbackDelayMs(r))>>

\* the outcomes of tmux.WaitForRuntimeReady that WaitForCopilotReady can meet: the
\* marker is seen only if it is shown; a runtime that is not waited for has one outcome
CopilotReadyOutcomes(r, S) ==
    IF ~isCopilotRuntime(r) THEN {TRUE} ELSE Outcomes(PromptVisible(S, SessionName))
CopilotReadyCharge(r, S, ready) ==
    IF ~isCopilotRuntime(r) THEN UNCHANGED faults
    ELSE Charge(ready, PromptVisible(S, SessionName))

\* manager.go:209-210
StartCopilotReady(p) ==
    /\ pc[p] = "copilotReady"
    /\ \E ready \in CopilotReadyOutcomes(rc, sessions) :
         /\ Logged(p, <<Ev("SleepShutdownNotifyDelay", TRUE)>> \o WaitForCopilotReady(rc, ready))
         /\ CopilotReadyCharge(rc, sessions, ready)
    /\ Goto(p, "startupNudge")
    /\ UNCHANGED <<sessions, hooksFile, trustFile, rc, roleBead, calls, args, loc, result>>

\* manager.go:212-218: session.StartupNudge, error dropped
StartStartupNudge(p) ==
    /\ pc[p] = "startupNudge"
    /\ \E sent \in Outcomes(HasSession(sessions, SessionName)) :
         /\ Logged(p, <<Ev("StartupNudge", sent)>>)
         /\ Charge(sent, HasSession(sessions, SessionName))
         /\ sessions' = IF sent THEN NudgeSession(sessions, SessionName) ELSE sessions
    /\ Goto(p, "fallback")
    /\ UNCHANGED <<hooksFile, trustFile, rc, roleBead, calls, args, loc, result>>

\* manager.go:220-221 with runtime.RunStartupFallback (part_000:172-182)
StartFallback(p) ==
    /\ pc[p] = "fallback"
    /\ \E hooksAvailable \in BOOLEAN :
         LET commands == StartupFallbackCommands("witness", rc, hooksAvailable)
             waited == isCopilotRuntime(rc)
             nudged == Len(commands) > 0
             visible == PromptVisible(sessions, SessionName)
             exists == HasSession(sessions, SessionName)
         IN
         \E ready \in BOOLEAN, sent \in BOOLEAN :
            /\ waited => (ready => visible)
            /\ ~waited => ready
            /\ nudged => (sent => exists)
            /\ ~nudged => sent
            /\ LET cost == (IF waited /\ ~ready /\ visible THEN 1 ELSE 0)
                           + (IF nudged /\ ~sent /\ exists THEN 1 ELSE 0)
               IN  faults + cost <= MaxFaults /\ faults' = faults + cost
            /\ Logged(p, SleepForReadyDelay(rc)
                           \o WaitForCopilotReady(rc, ready)
                           \o [i \in 1..Len(commands) |-> Ev("FallbackNudge", sent)])
            /\ sessions' = IF sent /\ nudged
                           THEN NudgeSession(sessions, SessionName) ELSE sessions
    /\ Goto(p, "waitReady")
    /\ UNCHANGED <<hooksFile, trustFile, rc, roleBead, calls, args, loc, result>>

\* mutation: the propulsion nudge sent without the wait for the prompt
StartWaitReadySkipped(p) ==
    /\ pc[p] = "waitReady"
    /\ Goto(p, "propulsion")
    /\ UNCHANGED <<sessions, hooksFile, trustFile, rc, roleBead, calls, args, loc, log,
                   result, faults>>

\* manager.go:223-239: the wait before the propulsion nudge and its fallback sleep
StartWaitReady(p) ==
    /\ pc[p] = "waitReady"
    /\ \E ready \in Outcomes(PromptVisible(sessions, SessionName)) :
         /\ Logged(p, IF ready THEN <<Ev("WaitForRuntimeReady", TRUE)>>
                      ELSE <<Ev("WaitForRuntimeReady", FALSE),
                             SleepEv(PropulsionFallbackDelayMs(rc))>>)
         /\ Charge(ready, PromptVisible(sessions, SessionName))
    /\ Goto(p, "propulsion")
    /\ UNCHANGED <<sessions, hooksFile, trustFile, rc, roleBead, calls, args, loc, result>>

\* manager.go:241-245
StartPropulsionNudge(p) ==
    /\ pc[p] = "propulsion"
    /\ \E sent \in Outcomes(HasSession(sessions, SessionName)) :
         /\ Logged(p, <<Ev("PropulsionNudge", sent)>>)
         /\ Charge(sent, HasSession(sessions, SessionName))
         /\ sessions' = IF sent THEN NudgeSession(sessions, SessionName) ELSE sessions
    /\ Return(p, "nil")
    /\ UNCHANGED <<hooksFile, trustFile, rc, roleBead, calls, args, loc>>

-----------------------------------------------------------------------------
(* Manager.Stop (manager.go:336-348): HasSession with its error dropped, KillSession *)

Stop(p) ==
    /\ pc[p] = "idle"
    /\ calls < MaxCalls
    /\ calls' = calls + 1
    /\ args' = [args EXCEPT ![p] = [NoArgs EXCEPT !.op = "Stop"]]
    /\ \E queryOk \in Outcomes(TRUE) :
         LET running == queryOk /\ HasSession(sessions, SessionName) IN
         /\ loc' = [loc EXCEPT ![p] = [NoLocals EXCEPT !.seen = SessionState(sessions),
                                                       !.running = running]]
         /\ IF running
            THEN \E killed \in Outcomes(TRUE) :
                 /\ log' = [log EXCEPT ![p] = <<Ev("HasSession", queryOk),
                                                Ev("KillSession", killed)>>]
                 /\ Charge(killed, TRUE)
                 /\ sessions' = IF killed THEN KillSession(sessions, SessionName) ELSE sessions
                 /\ Return(p, IF killed THEN "nil" ELSE "ErrKillSession")
            ELSE /\ log' = [log EXCEPT ![p] = <<Ev("HasSession", queryOk)>>]
                 /\ Charge(queryOk, TRUE)
                 /\ UNCHANGED sessions
                 /\ Return(p, "ErrNotRunning")
    /\ UNCHANGED <<hooksFile, trustFile, rc, roleBead>>

\* mutation: the query's error dropped as Stop drops it
StatusDropsQueryError(p) ==
    /\ pc[p] = "idle"
    /\ calls < MaxCalls
    /\ calls' = calls + 1
    /\ args' = [args EXCEPT ![p] = [NoArgs EXCEPT !.op = "Status"]]
    /\ \E queryOk \in Outcomes(TRUE) :
         LET running == queryOk /\ HasSession(sessions, SessionName) IN
         IF ~running
         THEN /\ loc' = [loc EXCEPT ![p] = [NoLocals EXCEPT !.seen = SessionState(sessions)]]
              /\ log' = [log EXCEPT ![p] = <<Ev("HasSession", queryOk)>>]
              /\ Charge(queryOk, TRUE)
              /\ Return(p, "ErrNotRunning")
         ELSE /\ loc' = [loc EXCEPT ![p] =
                           [NoLocals EXCEPT !.seen = SessionState(sessions),
                                            !.running = TRUE,
                                            !.info = GetSessionInfo(sessions, SessionName)]]
              /\ log' = [log EXCEPT ![p] = <<Ev("HasSession", TRUE),
                                             Ev("GetSessionInfo", TRUE)>>]
              /\ UNCHANGED faults
              /\ Return(p, "info")
    /\ UNCHANGED <<sessions, hooksFile, trustFile, rc, roleBead>>

(* Manager.Status (manager.go:61-74): HasSession, its error returned; GetSessionInfo *)
Status(p) ==
    /\ pc[p] = "idle"
    /\ calls < MaxCalls
    /\ calls' = calls + 1
    /\ args' = [args EXCEPT ![p] = [NoArgs EXCEPT !.op = "Status"]]
    /\ \E queryOk \in Outcomes(TRUE) :
         LET running == queryOk /\ HasSession(sessions, SessionName) IN
         IF ~queryOk
         THEN /\ loc' = [loc EXCEPT ![p] = [NoLocals EXCEPT !.seen = SessionState(sessions)]]
              /\ log' = [log EXCEPT ![p] = <<Ev("HasSession", FALSE)>>]
              /\ Charge(FALSE, TRUE)
              /\ Return(p, "ErrCheckingSession")
         ELSE IF ~running
         THEN /\ loc' = [loc EXCEPT ![p] = [NoLocals EXCEPT !.seen = SessionState(sessions)]]
              /\ log' = [log EXCEPT ![p] = <<Ev("HasSession", TRUE)>>]
              /\ UNCHANGED faults
              /\ Return(p, "ErrNotRunning")
         ELSE \E got \in Outcomes(TRUE) :
              /\ loc' = [loc EXCEPT ![p] =
                           [NoLocals EXCEPT !.seen = SessionState(sessions),
                                            !.running = TRUE,
                                            !.info = IF got
                                                     THEN GetSessionInfo(sessions, SessionName)
                                                     ELSE Nil]]
              /\ log' = [log EXCEPT ![p] = <<Ev("HasSession", TRUE),
                                             Ev("GetSessionInfo", got)>>]
              /\ Charge(got, TRUE)
              /\ Return(p, IF got THEN "info" ELSE "ErrGetSessionInfo")
    /\ UNCHANGED <<sessions, hooksFile, trustFile, rc, roleBead>>

\* the caller takes the returned value; it may call again
Finish(p) ==
    /\ pc[p] = "done"
    /\ pc' = [pc EXCEPT ![p] = "idle"]
    /\ args' = [args EXCEPT ![p] = NoArgs]
    /\ loc' = [loc EXCEPT ![p] = NoLocals]
    /\ log' = [log EXCEPT ![p] = <<>>]
    /\ result' = [result EXCEPT ![p] = "none"]
    /\ UNCHANGED <<sessions, hooksFile, trustFile, rc, roleBead, calls, faults>>

-----------------------------------------------------------------------------
(* What happens inside and around the session, outside the manager's control *)

Ours(s) == s.name = SessionName

\* the launched command gets going
AgentUp ==
    /\ \E s \in sessions :
         /\ Ours(s) /\ s.agent = "starting"
         /\ sessions' = (sessions \ {s}) \cup {[s EXCEPT !.agent = "alive"]}
    /\ UNCHANGED <<hooksFile, trustFile, rc, roleBead, calls, pc, args, loc, log, result, faults>>

\* the agent process exits; the tmux session stays behind
AgentExit ==
    /\ \E s \in sessions :
         /\ Ours(s) /\ s.agent = "alive"
         /\ sessions' = (sessions \ {s}) \cup {[s EXCEPT !.agent = "dead", !.busy = FALSE]}
    /\ UNCHANGED <<hooksFile, trustFile, rc, roleBead, calls, pc, args, loc, log, result, faults>>

\* the agent finishes processing what was injected and shows its prompt again
AgentSettle ==
    /\ \E s \in sessions :
         /\ Ours(s) /\ s.busy
         /\ sessions' = (sessions \ {s}) \cup {[s EXCEPT !.busy = FALSE]}
    /\ UNCHANGED <<hooksFile, trustFile, rc, roleBead, calls, pc, args, loc, log, result, faults>>

\* somebody kills the session from outside (tmux kill-session)
ExternalKill ==
    /\ HasSession(sessions, SessionName)
    /\ sessions' = KillSession(sessions, SessionName)
    /\ UNCHANGED <<hooksFile, trustFile, rc, roleBead, calls, pc, args, loc, log, result, faults>>

-----------------------------------------------------------------------------

Next ==
    \/ \E p \in Callers :
         \/ \E in \in StartInputs : StartEntry(p, in[1], in[2], in[3])
         \/ StartCheckSession(p)
         \/ StartEnsureSettings(p)
         \/ StartRoleConfig(p)
         \/ StartBuildCommand(p)
         \/ StartTrust(p)
         \/ StartCreateSession(p)
         \/ StartSetEnvironment(p)
         \/ StartTheme(p)
         \/ StartWaitForCommand(p)
         \/ StartAcceptBypass(p)
         \/ StartCopilotReady(p)
         \/ StartStartupNudge(p)
         \/ StartFallback(p)
         \/ StartWaitReady(p)
         \/ StartPropulsionNudge(p)
         \/ Stop(p)
         \/ Status(p)
         \/ Finish(p)
    \/ AgentUp
    \/ AgentExit
    \/ AgentSettle
    \/ ExternalKill

Spec == Init /\ [][Next]_vars

-----------------------------------------------------------------------------
(* Reading a call's record *)

Starting(p) == args[p].op = "Start"

Did(p, event) == \E i \in DOMAIN log[p] : log[p][i] = event
DidOp(p, op) == \E i \in DOMAIN log[p] : log[p][i].op = op
CountOp(p, op) == Cardinality({i \in DOMAIN log[p] : log[p][i].op = op})

QueryOps == {"HasSession", "IsClaudeRunning"}
NudgeOps == {"StartupNudge", "FallbackNudge", "PropulsionNudge"}

\* the call issued nothing but queries: no backend state and no file was touched
OnlyQueried(p) == \A i \in DOMAIN log[p] : log[p][i].op \in QueryOps

\* the session this call created, if it is still there
Created(p) == {s \in sessions : Ours(s) /\ s.gen = loc[p].gen}

-----------------------------------------------------------------------------
(* Claims about Manager.Start *)

\* C1 (as claimed): a Start that finds the session existing with no agent running in
\* it issues KillSession for it, never answers ErrAlreadyRunning, and whenever it
\* returns nil it has killed the stale session and then created a new one that runs
\* the command resolved by this call.
C1_ZombieKilledAndRecreated ==
    \A p \in Callers :
        (Starting(p) /\ loc[p].seen = "zombie") =>
            /\ result[p] # "ErrAlreadyRunning"
            /\ DidOp(p, "KillSession")
            /\ result[p] = "nil" =>
                 \E i, j \in DOMAIN log[p] :
                    /\ i < j
                    /\ log[p][i] = Ev("KillSession", TRUE)
                    /\ log[p][j] = Ev("NewSessionWithCommand", TRUE)
            /\ \A s \in Created(p) : s.command = loc[p].command

\* C1, the part the code keeps: when HasSession answered, the zombie is killed first
\* and a nil result means kill, then create.
C1_HoldsWhenQueryAnswers ==
    \A p \in Callers :
        (Starting(p) /\ loc[p].seen = "zombie" /\ Did(p, Ev("HasSession", TRUE))) =>
            /\ result[p] # "ErrAlreadyRunning"
            /\ DidOp(p, "KillSession")
            /\ result[p] = "nil" =>
                 \E i, j \in DOMAIN log[p] :
                    /\ i < j
                    /\ log[p][i] = Ev("KillSession", TRUE)
                    /\ log[p][j] = Ev("NewSessionWithCommand", TRUE)
            /\ \A s \in Created(p) : s.command = loc[p].command

\* C2 (as claimed): a Start that finds the session existing with the agent running in
\* it returns ErrAlreadyRunning and has touched nothing: it killed or created no
\* session, set no variable, sent no nudge and wrote no hooks or trust file.
C2_AlreadyRunningNoMutation ==
    \A p \in Callers :
        (Starting(p) /\ loc[p].seen = "healthy") =>
            /\ pc[p] = "done"
            /\ result[p] = "ErrAlreadyRunning"
            /\ OnlyQueried(p)

\* C2, the part the code keeps: when HasSession answered.
C2_HoldsWhenQueryAnswers ==
    \A p \in Callers :
        (Starting(p) /\ loc[p].seen = "healthy" /\ Did(p, Ev("HasSession", TRUE))) =>
            /\ pc[p] = "done"
            /\ result[p] = "ErrAlreadyRunning"
            /\ OnlyQueried(p)

\* C3 (as claimed): at any time tmux holds at most one session named for this witness;
\* a Start issues NewSessionWithCommand at most once, and only after HasSession told it
\* that there is no session or after its KillSession of a zombie succeeded.
C3_AtMostOneSession ==
    /\ Cardinality({s \in sessions : Ours(s)}) <= 1
    /\ \A p \in Callers :
          Starting(p) =>
            /\ CountOp(p, "NewSessionWithCommand") <= 1
            /\ \A j \in DOMAIN log[p] :
                 log[p][j].op = "NewSessionWithCommand" =>
                    \/ Did(p, Ev("HasSession", TRUE)) /\ ~loc[p].running
                    \/ \E i \in 1..(j - 1) : log[p][i] = Ev("KillSession", TRUE)

\* C3, the part the code keeps: one session at most, one NewSessionWithCommand per
\* call, issued on the branch where `running` is false (a failed query included) or
\* after the zombie was killed.
C3_HoldsReadingErrorAsAbsent ==
    /\ Cardinality({s \in sessions : Ours(s)}) <= 1
    /\ \A p \in Callers :
          Starting(p) =>
            /\ CountOp(p, "NewSessionWithCommand") <= 1
            /\ \A j \in DOMAIN log[p] :
                 log[p][j].op = "NewSessionWithCommand" =>
                    \/ ~loc[p].running
                    \/ \E i \in 1..(j - 1) : log[p][i] = Ev("KillSession", TRUE)

\* C4: when WaitForCommand fails (which happens only after the session was created),
\* Start issues KillSessionWithProcesses as its last operation, returns the wait's
\* error, and has sent no startup nudge, fallback command or propulsion nudge; if
\* the kill succeeded the session it created is gone.
C4_WaitFailureKillsAndReturns ==
    \A p \in Callers :
        (Starting(p) /\ (Did(p, Ev("WaitForCommand", FALSE)) \/ result[p] = "ErrWaitForCommand")) =>
            LET n == Len(log[p]) IN
            /\ pc[p] = "done"
            /\ result[p] = "ErrWaitForCommand"
            /\ Did(p, Ev("NewSessionWithCommand", TRUE))
            /\ n >= 2
            /\ log[p][n - 1] = Ev("WaitForCommand", FALSE)
            /\ log[p][n].op = "KillSessionWithProcesses"
            /\ log[p][n].ok => Created(p) = {}
            /\ \A i \in DOMAIN log[p] : log[p][i].op \notin NudgeOps

\* C4 witness: the wait failed on a created session and the cleanup kill went through.
C4_Witness ==
    \E p \in Callers :
        /\ result[p] = "ErrWaitForCommand"
        /\ Did(p, Ev("NewSessionWithCommand", TRUE))
        /\ Did(p, Ev("KillSessionWithProcesses", TRUE))

BestEffortOps == {"SetEnvironment", "ConfigureGasTownSession", "AcceptBypassPermissionsWarning",
                  "WaitForRuntimeReady", "StartupNudge", "FallbackNudge", "PropulsionNudge"}

\* the number of SetEnvironment calls Start owes for its inputs
EnvCallCount(p) ==
    Cardinality(DOMAIN AgentEnv)
        + Cardinality(DOMAIN roleConfigEnvVars(loc[p].roleConfig))
        + Len(OverrideCalls(args[p].envOverrides))

\* C5: once NewSessionWithCommand succeeded, a finished Start has run WaitForCommand and
\* returned nil exactly if that wait succeeded (else the wait's error); whatever
\* failed among SetEnvironment, theming, the permission dialog, the readiness waits and
\* the nudges, a Start that passed WaitForCommand still ran every later step.
C5_OnlyWaitForCommandIsFatal ==
    \A p \in Callers :
        (Starting(p) /\ pc[p] = "done" /\ Did(p, Ev("NewSessionWithCommand", TRUE))) =>
            /\ DidOp(p, "WaitForCommand")
            /\ result[p] \in {"nil", "ErrWaitForCommand"}
            /\ result[p] = "nil" <=> Did(p, Ev("WaitForCommand", TRUE))
            /\ CountOp(p, "SetEnvironment") = EnvCallCount(p)
            /\ CountOp(p, "ConfigureGasTownSession") = 1
            /\ result[p] = "nil" =>
                 /\ CountOp(p, "AcceptBypassPermissionsWarning") = 1
                 /\ CountOp(p, "StartupNudge") = 1
                 /\ CountOp(p, "WaitForRuntimeReady") >= 1
                 /\ CountOp(p, "PropulsionNudge") = 1
                 /\ \E avail \in BOOLEAN :
                      CountOp(p, "FallbackNudge")
                        = Len(StartupFallbackCommands("witness", rc, avail))

\* C5 witness: Start returned nil although a best-effort step had failed.
C5_Witness ==
    \E p \in Callers :
        /\ Starting(p) /\ result[p] = "nil"
        /\ \E i \in DOMAIN log[p] : log[p][i].op \in BestEffortOps /\ ~log[p][i].ok

\* C6 (as claimed): the propulsion nudge is sent only right after a readiness wait
\* that observed the prompt.
C6_PropulsionOnlyAfterPromptSeen ==
    \A p \in Callers : \A i \in DOMAIN log[p] :
        log[p][i].op = "PropulsionNudge" =>
            i > 1 /\ log[p][i - 1] = Ev("WaitForRuntimeReady", TRUE)

\* C6 (amended): the propulsion nudge is sent only after the readiness wait that
\* follows the startup nudge has returned: either it observed the prompt, or it
\* failed and Start then slept at least 10000 ms.
C6_PropulsionAfterWaitOrFloorSleep ==
    \A p \in Callers : \A i \in DOMAIN log[p] :
        log[p][i].op = "PropulsionNudge" =>
            /\ \E j \in 1..(i - 1) : log[p][j].op = "StartupNudge"
            /\ \/ i > 1 /\ log[p][i - 1] = Ev("WaitForRuntimeReady", TRUE)
               \/ /\ i > 2
                  /\ log[p][i - 2] = Ev("WaitForRuntimeReady", FALSE)
                  /\ log[p][i - 1].op = "Sleep"
                  /\ log[p][i - 1].ms >= 10000

\* C6 witness: the wait failed under a runtime configured with a shorter delay, and
\* the propulsion nudge went out after the sleep.
C6_Witness ==
    \E p \in Callers : \E i \in DOMAIN log[p] :
        /\ log[p][i].op = "PropulsionNudge"
        /\ i > 2
        /\ log[p][i - 2] = Ev("WaitForRuntimeReady", FALSE)
        /\ log[p][i - 1].op = "Sleep"
        /\ rc.readyDelayMs > 0 /\ rc.readyDelayMs < 10000


EnvLog(p) == SelectSeq(log[p], LAMBDA e : e.op = "SetEnvironment")

\* the SetEnvironment calls of a Start come after the successful creation and are the
\* identity variables, then the expanded role-config variables, then the overrides
EnvCallsInPriorityOrder(p) ==
    /\ \A i \in DOMAIN log[p] :
          log[p][i].op = "SetEnvironment" =>
             \E j \in 1..(i - 1) : log[p][j] = Ev("NewSessionWithCommand", TRUE)
    /\ EnvLog(p) # <<>> =>
          \E o1 \in Orderings(AgentEnv),
             o2 \in Orderings(roleConfigEnvVars(loc[p].roleConfig)) :
             [i \in 1..Len(EnvLog(p)) |-> <<EnvLog(p)[i].key, EnvLog(p)[i].val>>]
                = MapCalls(AgentEnv, o1)
                    \o MapCalls(roleConfigEnvVars(loc[p].roleConfig), o2)
                    \o OverrideCalls(args[p].envOverrides)

EnvKeys(p) ==
    LET ov == OverrideCalls(args[p].envOverrides) IN
    DOMAIN AgentEnv \cup DOMAIN roleConfigEnvVars(loc[p].roleConfig)
        \cup {ov[i][1] : i \in DOMAIN ov}

Highest(I) == CHOOSE i \in I : \A j \in I : j <= i

\* the value the priority rule gives a key: the last override, else role config, else identity
PriorityValue(p, k) ==
    LET ov == OverrideCalls(args[p].envOverrides)
        at == {i \in DOMAIN ov : ov[i][1] = k}
        rv == roleConfigEnvVars(loc[p].roleConfig)
    IN IF at # {} THEN ov[Highest(at)][2]
       ELSE IF k \in DOMAIN rv THEN rv[k] ELSE AgentEnv[k]

EnvApplied(p) == Starting(p) /\ Created(p) # {} /\ pc[p] # "env"

\* C7 (as claimed): the SetEnvironment calls follow the creation in the order identity,
\* role config, overrides, and so the session ends with, for every key, the override
\* value, else the role-config value, else the identity value.
C7_FinalEnvFollowsPriority ==
    \A p \in Callers :
        Starting(p) =>
            /\ EnvCallsInPriorityOrder(p)
            /\ EnvApplied(p) =>
                 \A s \in Created(p) : \A k \in EnvKeys(p) :
                    k \in DOMAIN s.env /\ s.env[k] = PriorityValue(p, k)

\* C7 (amended): the calls follow the creation in the order identity, role config,
\* overrides; their errors are dropped, so the session ends with, for every key, the
\* value of the last call for that key that succeeded, and without the key if none did.
C7_FinalEnvIsLastSuccessfulCall ==
    \A p \in Callers :
        Starting(p) =>
            /\ EnvCallsInPriorityOrder(p)
            /\ EnvApplied(p) =>
                 \A s \in Created(p) : \A k \in EnvKeys(p) :
                    LET done == {i \in DOMAIN log[p] : log[p][i] = EnvEv(k, log[p][i].val, TRUE)}
                    IN IF done = {} THEN k \notin DOMAIN s.env
                       ELSE k \in DOMAIN s.env /\ s.env[k] = log[p][Highest(done)].val

\* C7 witness: a key set from two sources, the later call failed, and the session
\* kept the earlier source's value.
C7_Witness ==
    \E p \in Callers :
        /\ EnvApplied(p)
        /\ \E s \in Created(p) : \E k \in EnvKeys(p) :
              /\ k \in DOMAIN s.env
              /\ s.env[k] # PriorityValue(p, k)
              /\ \E i \in DOMAIN log[p] : log[p][i] = EnvEv(k, PriorityValue(p, k), FALSE)

ConfigErrors == {"ErrRoleConfig", "ErrBuildCommand"}

\* C8 (as claimed): a Start that fails on the role config or on building the command
\* has mutated nothing: it only queried the backend.
C8_ConfigErrorBeforeAnyMutation ==
    \A p \in Callers :
        (Starting(p) /\ result[p] \in ConfigErrors) => OnlyQueried(p)

\* C8 (amended): a Start that fails on the role config or on building the command
\* returns before the trust file is written and before the session is created, so it
\* has set no variable and sent no nudge; it may already have killed a zombie session
\* and written the hooks file.
C8_ConfigErrorBeforeCreation ==
    \A p \in Callers :
        (Starting(p) /\ result[p] \in ConfigErrors) =>
            /\ pc[p] = "done"
            /\ \A i \in DOMAIN log[p] :
                  log[p][i].op \in QueryOps \cup {"KillSession", "WriteHooks"}
            /\ Created(p) = {}

\* C8 witness: the configuration error came after the zombie was killed or the hooks
\* file was written.
C8_Witness ==
    \E p \in Callers :
        /\ Starting(p) /\ result[p] \in ConfigErrors
        /\ \E i \in DOMAIN log[p] : log[p][i].op \in {"KillSession", "WriteHooks"} /\ log[p][i].ok

\* C9: when NewSessionWithCommand fails, Start issues a forced termination of the
\* session before it returns the error.
C9_FailedCreateIsCleanedUp ==
    \A p \in Callers :
        (Starting(p) /\ result[p] = "ErrCreateSession") =>
            \E i, j \in DOMAIN log[p] :
                /\ i < j
                /\ log[p][i] = Ev("NewSessionWithCommand", FALSE)
                /\ log[p][j].op \in {"KillSession", "KillSessionWithProcesses"}

\* C10: Start(foreground=true) returns the foreground error at once, having made no
\* backend call and written no file, whatever the session's state.
C10_ForegroundRejectedFirst ==
    \A p \in Callers :
        (Starting(p) /\ args[p].foreground) =>
            /\ pc[p] = "done"
            /\ result[p] = "ErrForegroundDeprecated"
            /\ log[p] = <<>>

\* C10 witness: the foreground call was rejected while a healthy session existed.
C10_Witness ==
    \E p \in Callers :
        /\ Starting(p) /\ args[p].foreground
        /\ result[p] = "ErrForegroundDeprecated"
        /\ SessionState(sessions) = "healthy"


-----------------------------------------------------------------------------
(* Claims about Manager.Stop and Manager.Status *)

Stopping(p) == args[p].op = "Stop"
Asking(p) == args[p].op = "Status"

\* C11 (as claimed): Stop returns ErrNotRunning exactly when no session exists; when one
\* exists, healthy or zombie alike, it issues KillSession once and returns its result.
C11_StopKillsWhateverExists ==
    \A p \in Callers :
        Stopping(p) =>
            /\ pc[p] = "done"
            /\ result[p] = "ErrNotRunning" <=> loc[p].seen = "absent"
            /\ loc[p].seen \in {"healthy", "zombie"} =>
                 /\ CountOp(p, "KillSession") = 1
                 /\ result[p] = "nil" <=> Did(p, Ev("KillSession", TRUE))
            /\ ~DidOp(p, "IsClaudeRunning")

\* C11, the part the code keeps: the same with "exists" read as "HasSession answered
\* and said so".
C11_HoldsWhenQueryAnswers ==
    \A p \in Callers :
        (Stopping(p) /\ Did(p, Ev("HasSession", TRUE))) =>
            /\ pc[p] = "done"
            /\ result[p] = "ErrNotRunning" <=> loc[p].seen = "absent"
            /\ loc[p].seen \in {"healthy", "zombie"} =>
                 /\ CountOp(p, "KillSession") = 1
                 /\ result[p] = "nil" <=> Did(p, Ev("KillSession", TRUE))
            /\ ~DidOp(p, "IsClaudeRunning")

StatusOps == {"HasSession", "GetSessionInfo"}

\* C12 (as claimed): Status only queries; it returns ErrNotRunning when the session is
\* absent at the time of the call and the session's info when it exists.
C12_StatusReflectsBackend ==
    \A p \in Callers :
        Asking(p) =>
            /\ pc[p] = "done"
            /\ \A i \in DOMAIN log[p] : log[p][i].op \in StatusOps
            /\ loc[p].seen = "absent" => result[p] = "ErrNotRunning"
            /\ loc[p].seen \in {"healthy", "zombie"} =>
                 /\ result[p] = "info"
                 /\ loc[p].info = [name |-> SessionName, created |-> loc[p].info.created]

\* C12 (amended): Status only queries, anew on every call; an error of HasSession or
\* GetSessionInfo is returned as such; otherwise it returns ErrNotRunning exactly when
\* the session is absent at the time of the call and the info of the session that
\* exists then.
C12_StatusReflectsBackendOrItsError ==
    \A p \in Callers :
        Asking(p) =>
            /\ pc[p] = "done"
            /\ \A i \in DOMAIN log[p] : log[p][i].op \in StatusOps
            /\ log[p][1].op = "HasSession"
            /\ result[p] = "ErrCheckingSession" <=> log[p] = <<Ev("HasSession", FALSE)>>
            /\ result[p] = "ErrNotRunning" <=>
                 (loc[p].seen = "absent" /\ log[p] = <<Ev("HasSession", TRUE)>>)
            /\ result[p] = "ErrGetSessionInfo" <=> Did(p, Ev("GetSessionInfo", FALSE))
            /\ result[p] = "info" <=>
                 (loc[p].seen \in {"healthy", "zombie"} /\ Did(p, Ev("GetSessionInfo", TRUE)))
            /\ result[p] = "info" =>
                 /\ loc[p].info # Nil
                 /\ loc[p].info.name = SessionName
                 /\ loc[p].info.created \in 1..calls
            /\ result[p] \in {"ErrCheckingSession", "ErrNotRunning", "ErrGetSessionInfo", "info"}

\* C12 witness: a Status that follows a Start returns the info of the session that
\* Start created.
C12_Witness ==
    \E p \in Callers :
        /\ Asking(p) /\ result[p] = "info"
        /\ calls = 2 /\ loc[p].info.created = 1


-----------------------------------------------------------------------------
(* internal/copilot: the hooks file of the Copilot CLI and its merge.         *)
(* Under SpecHooks the variable hooksFile holds the file itself: its content  *)
(* and its modification time; log[p] holds one record per call.               *)

MaxHookCalls == 2

\* claude.RoleTypeFor
RoleTypeFor(role) ==
    IF ToLower(role) \in {"polecat", "witness", "refinery", "deacon"}
    THEN "autonomous" ELSE "interactive"

\* hook entries: JSON objects, read into map[string]any
PrimeHook == [type |-> "command", bash |-> "gt prime --hook", comment |-> ""]
CompactHook == [type |-> "command", bash |-> "gt prime --hook --compact", comment |-> ""]
UserHook == [type |-> "command", bash |-> "notify-send started", comment |-> "mine"]
\* the user's variant of a required entry: the same command, one more field
CommentedPrimeHook == [type |-> "command", bash |-> "gt prime --hook", comment |-> "mine"]

EmptyHooks == [n \in {} |-> <<>>]
NoExtra == [n \in {} |-> ""]

\* the embedded templates config/hooks-autonomous.json and config/hooks-interactive.json,
\* as the fragments they may hold (one of them lists an entry twice)
HookTemplates(roleType) ==
    IF roleType = "autonomous"
    THEN { [version |-> 1,
            hooks |-> ("sessionStart" :> <<PrimeHook>>) @@ ("preCompact" :> <<CompactHook>>)],
           [version |-> 0, hooks |-> ("sessionStart" :> <<PrimeHook, PrimeHook>>)] }
    ELSE { [version |-> 1, hooks |-> ("sessionStart" :> <<PrimeHook>>)] }

\* what a hooks file may hold: nothing, white space, text that is no hooks document, or
\* a JSON object with an optional version, optional hooks and fields of the user's own
SessionStartLists ==
    { <<>>, <<PrimeHook>>, <<UserHook>>, <<UserHook, PrimeHook>>, <<PrimeHook, UserHook>>,
      <<PrimeHook, PrimeHook>>, <<CommentedPrimeHook>> }
PreCompactLists == { <<CompactHook>>, <<UserHook>> }
CustomLists == { <<UserHook>> }

Among(name, lists) == {EmptyHooks} \cup {name :> l : l \in lists}

HookMaps ==
    { a @@ b @@ c : a \in Among("sessionStart", SessionStartLists),
                    b \in Among("preCompact", PreCompactLists),
                    c \in Among("errorOccurred", CustomLists) }

VersionFields ==
    {[set |-> FALSE, n |-> 0]} \cup {[set |-> TRUE, n |-> v] : v \in {-1, 0, 1, 2}}

HooksFields == {[set |-> FALSE, map |-> EmptyHooks]} \cup {[set |-> TRUE, map |-> m] : m \in HookMaps}

ExtraFields == {NoExtra, "theme" :> "dark"}

NoDocument(kind) ==
    [kind |-> kind, version |-> [set |-> FALSE, n |-> 0],
     hooks |-> [set |-> FALSE, map |-> EmptyHooks], extra |-> NoExtra]

HookFileContents ==
    {NoDocument(k) : k \in {"missing", "blank", "malformed"}}
        \cup {[kind |-> "json", version |-> v, hooks |-> h, extra |-> x] :
                 v \in VersionFields, h \in HooksFields, x \in ExtraFields}

DefaultHooksConfig == [Version |-> 1, Hooks |-> EmptyHooks]

\* mutation: a document that does not parse is replaced by the default one
readHooksConfigResetting(content) ==
    CASE content.kind \in {"missing", "blank", "malformed"} ->
             [ok |-> TRUE, cfg |-> DefaultHooksConfig]
      [] OTHER ->
           LET read == IF content.version.set THEN content.version.n ELSE 1
               hooks == IF content.hooks.set THEN content.hooks.map ELSE EmptyHooks
           IN [ok |-> TRUE,
               cfg |-> [Version |-> IF read = 0 THEN 1 ELSE read, Hooks |-> hooks]]

\* readHooksConfig: json.Unmarshal into a hooksConfig preset to version 1 and no hooks;
\* fields the struct does not declare are not kept
readHooksConfig(content) ==
    CASE content.kind \in {"missing", "blank"} -> [ok |-> TRUE, cfg |-> DefaultHooksConfig]
      [] content.kind = "malformed" -> [ok |-> FALSE, cfg |-> DefaultHooksConfig]
      [] OTHER ->
           LET read == IF content.version.set THEN content.version.n ELSE 1
               hooks == IF content.hooks.set THEN content.hooks.map ELSE EmptyHooks
           IN [ok |-> TRUE,
               cfg |-> [Version |-> IF read = 0 THEN 1 ELSE read, Hooks |-> hooks]]

\* requiredHooksForRole, given the content of the template it reads
requiredHooksForRole(template) ==
    [Version |-> IF template.version = 0 THEN 1 ELSE template.version,
     Hooks |-> template.hooks]

\* mutation: entries compared by identity, so no stored entry is ever found
containsHookEntryNever(existing, entry) == FALSE

\* mutation: entries taken for the same when their commands are
containsHookEntryByCommand(existing, entry) ==
    \E i \in DOMAIN existing : existing[i].bash = entry.bash

\* containsHookEntry: json.Marshal writes a map with its keys sorted, so two entries
\* give the same text exactly if they are the same map
containsHookEntry(existing, entry) == \E i \in DOMAIN existing : existing[i] = entry

\* mutation: each required entry looked up in the list as it was before the loop
AppendMissingAgainstOriginal(existingEntries, entries, i) ==
    existingEntries
        \o SelectSeq(entries, LAMBDA e : ~(\E j \in DOMAIN existingEntries : existingEntries[j] = e))

\* the inner loop of mergeHooks: each required entry is looked up in the list as it
\* has grown so far
RECURSIVE AppendMissing(_, _, _)
AppendMissing(existingEntries, entries, i) ==
    IF i > Len(entries) THEN existingEntries
    ELSE AppendMissing(IF containsHookEntry(existingEntries, entries[i])
                       THEN existingEntries
                       ELSE Append(existingEntries, entries[i]),
                       entries, i + 1)

EntriesOf(hooks, hookName) == IF hookName \in DOMAIN hooks THEN hooks[hookName] ELSE <<>>

\* mutation: the required entries put in place of the stored ones
mergeHooksReplacing(existing, required) ==
    LET hooks == [n \in DOMAIN existing.Hooks \cup DOMAIN required.Hooks |->
                     IF n \in DOMAIN required.Hooks THEN required.Hooks[n]
                     ELSE existing.Hooks[n]]
    IN [updated |-> hooks # existing.Hooks \/ required.Version > existing.Version,
        cfg |-> [Version |-> IF required.Version > existing.Version
                             THEN required.Version ELSE existing.Version,
                 Hooks |-> hooks]]

mergeHooks(existing, required) ==
    LET v1 == IF existing.Version = 0 /\ required.Version # 0
              THEN required.Version ELSE existing.Version
        v2 == IF required.Version > v1 THEN required.Version ELSE v1
        merged(n) == AppendMissing(EntriesOf(existing.Hooks, n), required.Hooks[n], 1)
        set == {n \in DOMAIN required.Hooks : Len(merged(n)) > 0}
        hooks == [n \in DOMAIN existing.Hooks \cup set |->
                     IF n \in set THEN merged(n) ELSE existing.Hooks[n]]
    IN [updated |-> \/ v2 # existing.Version
                    \/ \E n \in DOMAIN required.Hooks :
                          Len(merged(n)) > Len(EntriesOf(existing.Hooks, n)),
        cfg |-> [Version |-> v2, Hooks |-> hooks]]

\* json.MarshalIndent of a hooksConfig: version always, hooks unless empty (omitempty)
MarshalHooksConfig(cfg) ==
    [kind |-> "json",
     version |-> [set |-> TRUE, n |-> cfg.Version],
     hooks |-> IF DOMAIN cfg.Hooks = {}
               THEN [set |-> FALSE, map |-> EmptyHooks]
               ELSE [set |-> TRUE, map |-> cfg.Hooks],
     extra |-> NoExtra]

HookRoles == {"witness", "crew", "Polecat"}

\* the record of one EnsureHooksForRole call
HookCall(role, fileName, template, before, after, err) ==
    [op |-> "EnsureHooksForRole", role |-> role, fileName |-> fileName,
     template |-> template, before |-> before, after |-> after, err |-> err]

\* EnsureHooksForRole(workDir, role, hooksDir, hooksFile); `writable`: whether
\* os.MkdirAll and util.AtomicWriteFile succeed (an atomic write leaves the old file
\* on failure)
EnsureHooksForRole(p, role, fileName, template, writable) ==
    /\ calls < MaxHookCalls
    /\ calls' = calls + 1
    /\ LET existing == readHooksConfig(hooksFile.content)
           required == [requiredHooksForRole(template) EXCEPT !.Version = 1]
           merge == mergeHooks(existing.cfg, required)
           err == IF fileName = "" THEN "ErrHooksFileName"
                  ELSE IF ~existing.ok THEN "ErrParsingHooks"
                  ELSE IF ~merge.updated THEN "nil"
                  ELSE IF writable THEN "nil" ELSE "ErrWritingHooks"
           written == fileName # "" /\ existing.ok /\ merge.updated /\ writable
       IN /\ hooksFile' = IF written
                          THEN [content |-> MarshalHooksConfig(merge.cfg),
                                mtime |-> hooksFile.mtime + 1]
                          ELSE hooksFile
          /\ log' = [log EXCEPT ![p] =
                        Append(log[p], HookCall(role, fileName, template, hooksFile,
                                                hooksFile', err))]
    /\ UNCHANGED <<sessions, trustFile, rc, roleBead, pc, args, loc, result, faults>>

HooksInit ==
    /\ hooksFile \in {[content |-> c, mtime |-> 0] : c \in HookFileContents}
    /\ sessions = {}
    /\ trustFile = {}
    /\ rc = CopilotRuntime
    /\ roleBead = Nil
    /\ calls = 0
    /\ pc = [p \in Callers |-> "idle"]
    /\ args = [p \in Callers |-> NoArgs]
    /\ loc = [p \in Callers |-> NoLocals]
    /\ log = [p \in Callers |-> <<>>]
    /\ result = [p \in Callers |-> "none"]
    /\ faults = 0

HooksNext ==
    \E p \in Callers, role \in HookRoles, writable \in BOOLEAN :
        \E template \in HookTemplates(RoleTypeFor(role)),
           fileName \in IF role = "witness" THEN {"", "hooks.json"} ELSE {"hooks.json"} :
            EnsureHooksForRole(p, role, fileName, template, writable)

SpecHooks == HooksInit /\ [][HooksNext]_vars

-----------------------------------------------------------------------------
(* Claims about EnsureHooksForRole *)

HookCallsOf(p) == {i \in DOMAIN log[p] : log[p][i].op = "EnsureHooksForRole"}

\* the hooks a file's content holds
DiskHooks(content) ==
    IF content.kind = "json" /\ content.hooks.set THEN content.hooks.map ELSE EmptyHooks

IsPrefix(a, b) == Len(a) <= Len(b) /\ \A i \in 1..Len(a) : a[i] = b[i]
Count(seq, e) == Cardinality({i \in DOMAIN seq : seq[i] = e})
Wrote(c) == c.after.mtime # c.before.mtime

\* C13: after a successful EnsureHooksForRole, the next call with the same arguments
\* succeeds without writing: the file's content and modification time stay as they are
\* (also where a write would have failed, as there is nothing to merge).
C13_SecondCallWritesNothing ==
    \A p \in Callers : \A i \in HookCallsOf(p) :
        (i + 1 \in HookCallsOf(p)
            /\ log[p][i].err = "nil"
            /\ log[p][i + 1].role = log[p][i].role
            /\ log[p][i + 1].fileName = log[p][i].fileName
            /\ log[p][i + 1].template = log[p][i].template)
        => /\ log[p][i + 1].err = "nil"
           /\ log[p][i + 1].after = log[p][i + 1].before
           /\ log[p][i + 1].before = log[p][i].after

\* C13 witness: the first call created the missing file, the second left it alone.
C13_Witness ==
    \E p \in Callers : \E i \in HookCallsOf(p) :
        /\ i + 1 \in HookCallsOf(p)
        /\ log[p][i].before.content.kind = "missing"
        /\ log[p][i].err = "nil" /\ Wrote(log[p][i])
        /\ log[p][i + 1].role = log[p][i].role
        /\ log[p][i + 1].template = log[p][i].template
        /\ log[p][i + 1].err = "nil" /\ ~Wrote(log[p][i + 1])

\* C14: whatever an EnsureHooksForRole call does, every hook name of the file keeps its
\* entries, in their order, as the beginning of its list afterwards; what the merge
\* adds comes after them.
C14_MergeOnlyAppends ==
    \A p \in Callers : \A i \in HookCallsOf(p) :
        LET before == DiskHooks(log[p][i].before.content)
            after == DiskHooks(log[p][i].after.content)
        IN \A n \in DOMAIN before :
              n \in DOMAIN after /\ IsPrefix(before[n], after[n])

\* C14 witness: a file with the user's own entries, under a required name and under a
\* name of its own, was rewritten with a required entry added.
C14_Witness ==
    \E p \in Callers : \E i \in HookCallsOf(p) :
        LET before == DiskHooks(log[p][i].before.content)
            after == DiskHooks(log[p][i].after.content)
        IN /\ Wrote(log[p][i])
           /\ "errorOccurred" \in DOMAIN before
           /\ "sessionStart" \in DOMAIN before
           /\ before["sessionStart"] = <<UserHook>>
           /\ after["sessionStart"] = <<UserHook, PrimeHook>>

\* C15: after a successful EnsureHooksForRole every required entry is in the file under
\* its hook name; one that was not there before is there exactly once, also when the
\* template lists it twice; and a file that held no hooks holds exactly the required
\* names, each with the required entries once.
C15_RequiredEntriesPresentOnce ==
    \A p \in Callers : \A i \in HookCallsOf(p) :
        LET c == log[p][i]
            required == c.template.hooks
            before == DiskHooks(c.before.content)
            after == DiskHooks(c.after.content)
        IN c.err = "nil" =>
            /\ \A n \in DOMAIN required : \A j \in DOMAIN required[n] :
                  /\ n \in DOMAIN after
                  /\ Count(after[n], required[n][j]) >= 1
                  /\ Count(EntriesOf(before, n), required[n][j]) = 0
                        => Count(after[n], required[n][j]) = 1
            /\ before = EmptyHooks =>
                  /\ DOMAIN after = DOMAIN required
                  /\ \A n \in DOMAIN after :
                        /\ {after[n][j] : j \in DOMAIN after[n]}
                              = {required[n][j] : j \in DOMAIN required[n]}
                        /\ \A j \in DOMAIN after[n] : Count(after[n], after[n][j]) = 1

\* C15 witness: the template lists the prime hook twice, the file was missing, and the
\* written file holds it once.
C15_Witness ==
    \E p \in Callers : \E i \in HookCallsOf(p) :
        /\ log[p][i].err = "nil"
        /\ log[p][i].before.content.kind = "missing"
        /\ log[p][i].template.hooks["sessionStart"] = <<PrimeHook, PrimeHook>>
        /\ DiskHooks(log[p][i].after.content) = ("sessionStart" :> <<PrimeHook>>)

\* C16: when EnsureHooksForRole rewrites a hooks document, the top-level fields it does
\* not know are in the written document with their values.
C16_UnknownFieldsKept ==
    \A p \in Callers : \A i \in HookCallsOf(p) :
        (Wrote(log[p][i]) /\ log[p][i].before.content.kind = "json")
            => log[p][i].after.content.extra = log[p][i].before.content.extra

\* C17: a successful EnsureHooksForRole on a document whose version is unset or below
\* the required version 1 writes the document with version 1, whether or not a hook
\* entry was missing.
C17_LowVersionRaisedAndWritten ==
    \A p \in Callers : \A i \in HookCallsOf(p) :
        LET c == log[p][i] IN
        (c.err = "nil" /\ c.before.content.kind = "json"
            /\ (~c.before.content.version.set \/ c.before.content.version.n < 1))
        => /\ Wrote(c)
           /\ c.after.content.version = [set |-> TRUE, n |-> 1]

\* C18: a missing or blank hooks file is read as the default document and, the write
\* succeeding, becomes a version 1 document with the required hooks; a malformed one
\* makes the call fail and stays exactly as it was.
C18_MissingIsEmptyMalformedIsFatal ==
    \A p \in Callers : \A i \in HookCallsOf(p) :
        LET c == log[p][i] IN
        c.fileName # "" =>
            /\ c.before.content.kind \in {"missing", "blank"} =>
                  /\ c.err \in {"nil", "ErrWritingHooks"}
                  /\ c.err = "nil" =>
                        /\ c.after.content.kind = "json"
                        /\ c.after.content.version = [set |-> TRUE, n |-> 1]
                        /\ DOMAIN DiskHooks(c.after.content) = DOMAIN c.template.hooks
                  /\ c.err # "nil" => c.after = c.before
            /\ c.before.content.kind = "malformed" =>
                  /\ c.err = "ErrParsingHooks"
                  /\ c.after = c.before

\* C18 witness: two calls on a malformed file both failed and the file is as it was.
C18_Witness ==
    \E p \in Callers :
        /\ Len(log[p]) = 2
        /\ \A i \in HookCallsOf(p) :
              /\ log[p][i].before.content.kind = "malformed"
              /\ log[p][i].err = "ErrParsingHooks"
        /\ hooksFile.content.kind = "malformed" /\ hooksFile.mtime = 0

-----------------------------------------------------------------------------
(* internal/config: EnsureCopilotTrustedFolder and the trusted_folders list.  *)
(* Here a path is the sequence of its lexemes, the separator being a lexeme   *)
(* of its own, so that a prefix of the sequence is a prefix of the string.    *)

MaxTrustCalls == 2

Sep == "/"

\* the segments between the separators of a path
RECURSIVE Split(_)
Split(path) ==
    IF path = <<>> THEN << <<>> >>
    ELSE LET rest == Split(Tail(path)) IN
         IF Head(path) = Sep THEN << <<>> >> \o rest
         ELSE << <<Head(path)>> \o Head(rest) >> \o Tail(rest)

RECURSIVE JoinSegments(_)
JoinSegments(segs) ==
    IF segs = <<>> THEN <<>>
    ELSE IF Len(segs) = 1 THEN segs[1]
    ELSE segs[1] \o <<Sep>> \o JoinSegments(Tail(segs))

\* the segments filepath.Clean keeps: no empty one, no ".", ".." resolved
RECURSIVE CleanSegments(_, _, _)
CleanSegments(segs, rooted, kept) ==
    IF segs = <<>> THEN kept
    ELSE LET seg == Head(segs) IN
         IF seg = <<>> \/ seg = <<".">>
         THEN CleanSegments(Tail(segs), rooted, kept)
         ELSE IF seg = <<"..">>
         THEN IF kept # <<>> /\ kept[Len(kept)] # <<"..">>
              THEN CleanSegments(Tail(segs), rooted, SubSeq(kept, 1, Len(kept) - 1))
              ELSE IF rooted THEN CleanSegments(Tail(segs), rooted, kept)
              ELSE CleanSegments(Tail(segs), rooted, Append(kept, seg))
         ELSE CleanSegments(Tail(segs), rooted, Append(kept, seg))

filepath_Clean(path) ==
    IF path = <<>> THEN <<".">>
    ELSE LET rooted == Head(path) = Sep
             segs == CleanSegments(Split(path), rooted, <<>>)
         IN IF rooted THEN <<Sep>> \o JoinSegments(segs)
            ELSE IF segs = <<>> THEN <<".">> ELSE JoinSegments(segs)

\* filepath.Join(dir, name) for a non-empty dir
filepath_Join(dir, name) == filepath_Clean(dir \o <<Sep, name>>)

strings_HasPrefix(s, prefix) ==
    Len(prefix) <= Len(s) /\ SubSeq(s, 1, Len(prefix)) = prefix

\* the directory the calls are made from
Cwd == <<Sep, "town">>

\* the absolute, separator-normalised form of a path
normalizePath(path) ==
    IF path # <<>> /\ Head(path) = Sep THEN filepath_Clean(path)
    ELSE filepath_Clean(Cwd \o <<Sep>> \o path)

RigPath == <<Sep, "town", Sep, RigName>>
PolecatsDir == RigPath \o <<Sep, "polecats">>
WitnessWorkDir == RigPath \o <<Sep, "witness", Sep, "rig">>
WorktreeA == PolecatsDir \o <<Sep, "a", Sep, RigName>>
WorktreeB == PolecatsDir \o <<Sep, "b", Sep, RigName>>
\* beside polecats/, with a name that begins like it
SiblingDir == RigPath \o <<Sep, "polecats", "-old", Sep, "a">>
UserTrusted == <<Sep, "home", Sep, "me">>

\* the working directories of the calls, by the role that makes them
TrustWorkDirs ==
    [witness |-> { <<>>, WitnessWorkDir, WitnessWorkDir \o <<Sep>>,
                   <<RigName, Sep, "witness", Sep, "rig">>, WorktreeA },
     polecat |-> { WitnessWorkDir, WorktreeA, WorktreeA \o <<Sep>>, WorktreeB, SiblingDir }]

TrustConfig(role, rigPath, workDir, agentOverride) ==
    [Role |-> role, RigPath |-> rigPath, WorkDir |-> workDir, AgentOverride |-> agentOverride]

\* the CopilotTrustConfig values of the calls
TrustConfigs ==
    UNION {{TrustConfig(role, RigPath, workDir, "") : workDir \in TrustWorkDirs[role]} :
              role \in {"witness", "polecat"}}
    \cup {TrustConfig("", RigPath, WitnessWorkDir, ""),
          TrustConfig("polecat", <<>>, WorktreeA, ""),
          TrustConfig("polecat", RigPath, WorktreeB, "copilot"),
          TrustConfig("witness", RigPath, WitnessWorkDir, "copilot"),
          TrustConfig("witness", RigPath, WitnessWorkDir, "claude"),
          TrustConfig("witness", RigPath, WitnessWorkDir, "bogus")}

\* mutation: the polecat rule left out
TrustPathNoCollapse(cfg) == cfg.WorkDir

\* copilot.go:36-44: the path handed to copilot.EnsureTrustedFolderAt
TrustPath(cfg) ==
    IF cfg.Role = "polecat" /\ cfg.RigPath # <<>>
    THEN LET polecatsDir == filepath_Join(cfg.RigPath, "polecats") IN
         IF strings_HasPrefix(filepath_Clean(cfg.WorkDir), filepath_Clean(polecatsDir))
         THEN polecatsDir
         ELSE cfg.WorkDir
    ELSE cfg.WorkDir

\* the settings of the town: the default agent and the agents of single roles
TownSettings(defaultAgent, roleAgents) ==
    [DefaultAgent |-> defaultAgent, RoleAgents |-> roleAgents]
NoRoleAgents == [r \in {} |-> ""]

TrustSettings ==
    { TownSettings("claude", NoRoleAgents),
      TownSettings("copilot", NoRoleAgents),
      TownSettings("custom", NoRoleAgents),
      TownSettings("claude", "witness" :> "copilot"),
      TownSettings("copilot", "witness" :> "claude") }

\* the runtime of an agent named in the settings; "custom" is the settings' own agent
SettingsAgent(name) == IF name = "custom" THEN CustomCopilotRuntime ELSE AgentPreset(name)

ResolveAgentConfig(settings) == SettingsAgent(settings.DefaultAgent)

ResolveRoleAgentConfig(settings, role) ==
    IF role \in DOMAIN settings.RoleAgents
    THEN SettingsAgent(settings.RoleAgents[role])
    ELSE ResolveAgentConfig(settings)

\* mutation: the role's agent never consulted
resolveRoleOrDefaultIgnoringRole(settings, role) == ResolveAgentConfig(settings)

\* copilot.go:60-63: the runtime when no override is given
resolveRoleOrDefault(settings, role) ==
    IF role # "" THEN ResolveRoleAgentConfig(settings, role) ELSE ResolveAgentConfig(settings)

\* the trust document: config.json of the Copilot CLI
TrustDocument(exists, folders, extra, mtime) ==
    [exists |-> exists, folders |-> folders, extra |-> extra, mtime |-> mtime]
MissingDocument == TrustDocument(FALSE, <<>>, NoExtra, 0)
OtherSettings == [some_setting |-> "some_value", nested |-> [key |-> "value"]]

TrustDocuments ==
    { MissingDocument,
      TrustDocument(TRUE, <<UserTrusted>>, NoExtra, 0),
      TrustDocument(TRUE, <<>>, OtherSettings, 0) }

\* mutation: entries compared as the strings they are, the path added as given
EnsureTrustedFolderAtLiteral(folders, path) ==
    IF \E i \in DOMAIN folders : folders[i] = path
    THEN [updated |-> FALSE, folders |-> folders]
    ELSE [updated |-> TRUE, folders |-> Append(folders, path)]

\* copilot.EnsureTrustedFolderAt: the list it leaves, the path being added in its
\* normalised form unless an entry with the same normalised form is there
EnsureTrustedFolderAt(folders, path) ==
    LET normalized == normalizePath(path) IN
    IF \E i \in DOMAIN folders : normalizePath(folders[i]) = normalized
    THEN [updated |-> FALSE, folders |-> folders]
    ELSE [updated |-> TRUE, folders |-> Append(folders, normalized)]

\* mutation: the document written anew, with trusted_folders alone
WriteTrustDocumentFresh(doc, folders) == TrustDocument(TRUE, folders, NoExtra, doc.mtime + 1)

\* the document as copilot.EnsureTrustedFolderAt writes it: the other keys kept
WriteTrustDocument(doc, folders) == TrustDocument(TRUE, folders, doc.extra, doc.mtime + 1)

\* one call as observed: reached tells whether it got as far as the trust list,
\* updated what copilot.EnsureTrustedFolderAt returned
TrustCall(op, cfg, reached, trustPath, before, after, updated, err) ==
    [op |-> op, cfg |-> cfg, copilot |-> reached, trustPath |-> trustPath,
     before |-> before, after |-> after, updated |-> updated, err |-> err]

\* mutation: the trust path appended to the list as it is given
EnsureCopilotTrustedFolderAppending(p, cfg, writable) ==
    /\ calls < MaxTrustCalls
    /\ calls' = calls + 1
    /\ LET resolved == resolveRuntimeForCopilot(resolveRoleOrDefault(rc, cfg.Role),
                                                cfg.AgentOverride)
           copilot == resolved.ok /\ config_isCopilotRuntime(resolved.rc)
           trustPath == TrustPath(cfg)
           err == CASE cfg.WorkDir = <<>> -> "nil"
                    [] ~resolved.ok -> "ErrResolvingOverride"
                    [] ~copilot -> "nil"
                    [] ~writable -> "ErrUpdatingTrust"
                    [] OTHER -> "nil"
           written == cfg.WorkDir # <<>> /\ copilot /\ writable
       IN /\ trustFile' = IF written
                          THEN WriteTrustDocument(trustFile, Append(trustFile.folders, trustPath))
                          ELSE trustFile
          /\ Logged(p, <<TrustCall("EnsureCopilotTrustedFolder", cfg,
                                   cfg.WorkDir # <<>> /\ copilot, trustPath,
                                   trustFile, trustFile', written, err)>>)
    /\ UNCHANGED <<sessions, hooksFile, rc, roleBead, pc, args, loc, result, faults>>

\* copilot.go:23-50
EnsureCopilotTrustedFolder(p, cfg, writable) ==
    /\ calls < MaxTrustCalls
    /\ calls' = calls + 1
    /\ LET resolved == resolveRuntimeForCopilot(resolveRoleOrDefault(rc, cfg.Role),
                                                cfg.AgentOverride)
           copilot == resolved.ok /\ config_isCopilotRuntime(resolved.rc)
           trustPath == TrustPath(cfg)
           ensured == EnsureTrustedFolderAt(trustFile.folders, trustPath)
           err == CASE cfg.WorkDir = <<>> -> "nil"
                    [] ~resolved.ok -> "ErrResolvingOverride"
                    [] ~copilot -> "nil"
                    [] ensured.updated /\ ~writable -> "ErrUpdatingTrust"
                    [] OTHER -> "nil"
           written == cfg.WorkDir # <<>> /\ copilot /\ ensured.updated /\ writable
       IN /\ trustFile' = IF written THEN WriteTrustDocument(trustFile, ensured.folders)
                          ELSE trustFile
          /\ Logged(p, <<TrustCall("EnsureCopilotTrustedFolder", cfg,
                                   cfg.WorkDir # <<>> /\ copilot, trustPath,
                                   trustFile, trustFile', written, err)>>)
    /\ UNCHANGED <<sessions, hooksFile, rc, roleBead, pc, args, loc, result, faults>>

\* the paths the tests hand to copilot.EnsureTrustedFolder
TrustedPaths == {WitnessWorkDir, WitnessWorkDir \o <<Sep>>, WorktreeA, UserTrusted}

\* copilot.EnsureTrustedFolder(path), called as the tests call it
EnsureTrustedFolder(p, path, writable) ==
    /\ calls < MaxTrustCalls
    /\ calls' = calls + 1
    /\ LET ensured == EnsureTrustedFolderAt(trustFile.folders, path)
           written == ensured.updated /\ writable
           err == IF ensured.updated /\ ~writable THEN "ErrUpdatingTrust" ELSE "nil"
       IN /\ trustFile' = IF written THEN WriteTrustDocument(trustFile, ensured.folders)
                          ELSE trustFile
          /\ Logged(p, <<TrustCall("EnsureTrustedFolder", TrustConfig("", <<>>, path, ""),
                                   TRUE, path, trustFile, trustFile', written, err)>>)
    /\ UNCHANGED <<sessions, hooksFile, rc, roleBead, pc, args, loc, result, faults>>

TrustInit ==
    /\ trustFile \in TrustDocuments
    /\ rc \in TrustSettings
    /\ sessions = {}
    /\ hooksFile = "missing"
    /\ roleBead = Nil
    /\ calls = 0
    /\ pc = [p \in Callers |-> "idle"]
    /\ args = [p \in Callers |-> NoArgs]
    /\ loc = [p \in Callers |-> NoLocals]
    /\ log = [p \in Callers |-> <<>>]
    /\ result = [p \in Callers |-> "none"]
    /\ faults = 0

TrustNext ==
    \E p \in Callers, writable \in BOOLEAN :
        \/ \E cfg \in TrustConfigs : EnsureCopilotTrustedFolder(p, cfg, writable)
        \/ \E path \in TrustedPaths : EnsureTrustedFolder(p, path, writable)

SpecTrust == TrustInit /\ [][TrustNext]_vars

-----------------------------------------------------------------------------
(* Claims about EnsureCopilotTrustedFolder *)

TrustOps == {"EnsureCopilotTrustedFolder", "EnsureTrustedFolder"}
TrustCallsOf(p) == {i \in DOMAIN log[p] : log[p][i].op \in TrustOps}

\* the entries of a list that name the same directory as path
EntriesFor(folders, path) ==
    {i \in DOMAIN folders : normalizePath(folders[i]) = normalizePath(path)}

\* C19: with a copilot runtime, when a call that trusts path P succeeds and the next
\* call, trusting P followed by a separator, succeeds too, the list holds one entry
\* for P, the normalised form of P, and the second call added nothing; the list was
\* empty before, it holds that entry alone.
C19_TrailingSeparatorIsSamePath ==
    \A p \in Callers : \A i \in TrustCallsOf(p) :
        LET first == log[p][i]
            second == log[p][i + 1]
        IN (i + 1 \in TrustCallsOf(p)
              /\ first.copilot /\ second.copilot
              /\ first.err = "nil" /\ second.err = "nil"
              /\ first.trustPath # <<>> /\ first.trustPath[Len(first.trustPath)] # Sep
              /\ second.trustPath = first.trustPath \o <<Sep>>
              /\ EntriesFor(first.before.folders, first.trustPath) = {})
           => /\ Cardinality(EntriesFor(second.after.folders, first.trustPath)) = 1
              /\ \A j \in EntriesFor(second.after.folders, first.trustPath) :
                    second.after.folders[j] = normalizePath(first.trustPath)
              /\ second.after = second.before
              /\ first.before.folders = <<>>
                    => second.after.folders = <<normalizePath(first.trustPath)>>

\* C19 witness: the working directory was trusted, then the same with a trailing
\* separator, and the list holds the one clean path.
C19_Witness ==
    \E p \in Callers :
        /\ Len(log[p]) = 2
        /\ log[p][1].trustPath = WitnessWorkDir /\ log[p][1].err = "nil"
        /\ log[p][1].copilot /\ log[p][1].before.folders = <<>>
        /\ log[p][2].trustPath = WitnessWorkDir \o <<Sep>> /\ log[p][2].err = "nil"
        /\ log[p][2].copilot
        /\ trustFile.folders = <<WitnessWorkDir>>

\* a working directory strictly inside RigPath/polecats
NestedUnderPolecats(workDir) ==
    LET dir == filepath_Clean(workDir) IN
    dir # PolecatsDir /\ strings_HasPrefix(dir, PolecatsDir \o <<Sep>>)

PolecatCall(c) ==
    /\ c.cfg.Role = "polecat" /\ c.cfg.RigPath = RigPath
    /\ c.copilot /\ NestedUnderPolecats(c.cfg.WorkDir)

\* C20: as long as every call is a polecat's, with a copilot runtime and a working
\* directory nested under RigPath/polecats, the calls add nothing to the list but one
\* entry, RigPath/polecats, present as soon as one call succeeded, and no entry is a
\* nested working directory; from an empty list that entry is the only one.
C20_PolecatsCollapseToParent ==
    \A p \in Callers :
        (log[p] # <<>> /\ \A i \in DOMAIN log[p] :
              log[p][i].op = "EnsureCopilotTrustedFolder" /\ PolecatCall(log[p][i]))
        => /\ trustFile.folders = IF \E i \in DOMAIN log[p] : log[p][i].err = "nil"
                                  THEN log[p][1].before.folders \o <<PolecatsDir>>
                                  ELSE log[p][1].before.folders
           /\ \A j \in DOMAIN trustFile.folders : ~NestedUnderPolecats(trustFile.folders[j])
           /\ \A i \in DOMAIN log[p] : log[p][i].trustPath = PolecatsDir

\* C20 witness: two polecats' worktrees were trusted and the list holds the parent alone.
C20_Witness ==
    \E p \in Callers :
        /\ Len(log[p]) = 2
        /\ \A i \in DOMAIN log[p] : PolecatCall(log[p][i]) /\ log[p][i].err = "nil"
        /\ log[p][1].cfg.WorkDir = WorktreeA
        /\ log[p][2].cfg.WorkDir = WorktreeB
        /\ trustFile.folders = <<PolecatsDir>>

\* the calls that got as far as the trust list and returned no error
Trusted(c) == c.op \in TrustOps /\ c.copilot /\ c.err = "nil"

\* the directories a list names, each in its normalised form
Directories(folders) == {normalizePath(folders[i]) : i \in DOMAIN folders}

\* C21: whatever trust calls were made on the document, no directory is in
\* trusted_folders twice; the list has grown by one entry for each distinct directory
\* trusted that it did not hold; and a call reports updated exactly when it appended
\* an entry, which is when the directory was not in the list and the write succeeded.
C21_EachTrustedPathOnce ==
    \A p \in Callers :
        /\ \A i, j \in DOMAIN trustFile.folders :
              normalizePath(trustFile.folders[i]) = normalizePath(trustFile.folders[j]) => i = j
        /\ log[p] # <<>> =>
              LET initial == log[p][1].before.folders
                  trusted == {normalizePath(log[p][i].trustPath) :
                                 i \in {k \in DOMAIN log[p] : Trusted(log[p][k])}}
              IN Len(trustFile.folders)
                    = Len(initial) + Cardinality(trusted \ Directories(initial))
        /\ \A i \in TrustCallsOf(p) :
              LET c == log[p][i] IN
              /\ c.updated <=> Len(c.after.folders) = Len(c.before.folders) + 1
              /\ c.updated <=> (Trusted(c) /\ EntriesFor(c.before.folders, c.trustPath) = {})
              /\ ~c.updated => c.after = c.before
              /\ c.updated => c.after.folders
                                 = Append(c.before.folders, normalizePath(c.trustPath))

\* C21 witness: the first call for a path reported an update, its repetition, with a
\* trailing separator, none, and the list holds the path once.
C21_Witness ==
    \E p \in Callers :
        /\ Len(log[p]) = 2
        /\ log[p][1].op = "EnsureTrustedFolder" /\ log[p][2].op = "EnsureTrustedFolder"
        /\ log[p][1].trustPath = WitnessWorkDir /\ log[p][1].updated
        /\ log[p][2].trustPath = WitnessWorkDir \o <<Sep>>
        /\ ~log[p][2].updated /\ log[p][2].err = "nil"
        /\ trustFile.folders = <<UserTrusted, WitnessWorkDir>>

\* C22: a call that adds a trusted folder to an existing document leaves every other
\* top-level key of the document, nested objects included, as it was.
C22_OtherKeysKept ==
    \A p \in Callers : \A i \in TrustCallsOf(p) :
        LET c == log[p][i] IN
        (c.before.exists /\ c.after # c.before)
            => /\ c.after.exists
               /\ c.after.extra = c.before.extra

\* C22 witness: a document with other settings received a trusted folder through
\* EnsureCopilotTrustedFolder and still has the settings.
C22_Witness ==
    \E p \in Callers : \E i \in TrustCallsOf(p) :
        /\ log[p][i].op = "EnsureCopilotTrustedFolder"
        /\ log[p][i].before = TrustDocument(TRUE, <<>>, OtherSettings, 0)
        /\ log[p][i].after.folders = <<WitnessWorkDir>>
        /\ log[p][i].after.extra = OtherSettings

\* the agent a call names: the override, else the role's agent, else the default one
AgentNamed(settings, cfg) ==
    IF cfg.AgentOverride # "" THEN cfg.AgentOverride
    ELSE IF cfg.Role \in DOMAIN settings.RoleAgents THEN settings.RoleAgents[cfg.Role]
    ELSE settings.DefaultAgent

\* a runtime whose provider, or whose command's base name, is copilot in any case
NamesCopilot(r) ==
    \/ ToLower(r.provider) = "copilot"
    \/ r.command # <<>> /\ ToLower(r.command[Len(r.command)]) = "copilot"

\* C23: EnsureCopilotTrustedFolder with an empty WorkDir, or with a resolved runtime
\* that is not copilot by provider or by the base name of its command, returns nil and
\* leaves the trust document as it was: missing if it was missing, unwritten otherwise.
C23_NothingDoneUnlessCopilot ==
    \A p \in Callers : \A i \in TrustCallsOf(p) :
        LET c == log[p][i]
            r == SettingsAgent(AgentNamed(rc, c.cfg))
        IN (c.op = "EnsureCopilotTrustedFolder"
              /\ (c.cfg.WorkDir = <<>> \/ (r # Nil /\ ~NamesCopilot(r))))
           => /\ c.err = "nil"
              /\ c.after = c.before
              /\ ~c.updated

\* C23 witness: with claude as the agent and no trust document, two calls for the
\* working directory returned nil and there is still no document.
C23_Witness ==
    \E p \in Callers :
        /\ rc = TownSettings("claude", NoRoleAgents)
        /\ Len(log[p]) = 2
        /\ \A i \in DOMAIN log[p] :
              /\ log[p][i].op = "EnsureCopilotTrustedFolder"
              /\ log[p][i].cfg.WorkDir = WitnessWorkDir
              /\ log[p][i].cfg.AgentOverride = ""
              /\ log[p][i].err = "nil"
        /\ trustFile = MissingDocument

\* C24: the runtime that decides is the override's if one is given, else the role's
\* agent, else the default agent: a call changes the document only if that agent is
\* copilot, and if it is and the call succeeds the trusted path is in the list; so an
\* override to copilot trusts the path under a non-copilot default, and an override to
\* another agent leaves the document alone under a copilot default or role agent.
C24_OverrideThenRoleThenDefault ==
    \A p \in Callers : \A i \in TrustCallsOf(p) :
        LET c == log[p][i]
            r == SettingsAgent(AgentNamed(rc, c.cfg))
        IN (c.op = "EnsureCopilotTrustedFolder" /\ c.cfg.WorkDir # <<>>)
           => /\ c.after # c.before => (r # Nil /\ NamesCopilot(r))
              /\ (r # Nil /\ NamesCopilot(r) /\ c.err = "nil")
                    => EntriesFor(c.after.folders, c.trustPath) # {}
              /\ (c.cfg.AgentOverride = "copilot" /\ c.err = "nil")
                    => EntriesFor(c.after.folders, c.trustPath) # {}
              /\ c.cfg.AgentOverride \notin {"", "copilot"} => c.after = c.before

\* C24 witness: the role's agent is copilot under a claude default; the call with an
\* override to claude wrote nothing and the call without override created the document.
C24_Witness ==
    \E p \in Callers :
        /\ rc = TownSettings("claude", "witness" :> "copilot")
        /\ Len(log[p]) = 2
        /\ log[p][1].cfg = TrustConfig("witness", RigPath, WitnessWorkDir, "claude")
        /\ log[p][1].err = "nil" /\ log[p][1].after = MissingDocument
        /\ log[p][2].cfg = TrustConfig("witness", RigPath, WitnessWorkDir, "")
        /\ log[p][2].err = "nil"
        /\ trustFile.folders = <<WitnessWorkDir>>

-----------------------------------------------------------------------------
(* The readiness phase of Manager.Start (manager.go:206-245) on its own: a    *)
(* Start that has created its session and seen the agent come up, under       *)
(* runtimes of every provider and ready delay.                                *)

ReadyDelays == {-1, 0, 3000, 9999, 10000, 15000}

\* provider and command of the runtimes: copilot by provider, by provider in capitals,
\* by the base name of its command alone; and runtimes that are not copilot
ReadyAgents ==
    { <<"copilot", <<"copilot">> >>, <<"COPILOT", <<>> >>, <<"", <<"usr", "bin", "Copilot">> >>,
      <<"claude", <<"claude">> >>, <<"", <<>> >>, <<"codex", <<"opt", "copilot", "codex">> >> }

ReadyRuntimes ==
    {[provider |-> a[1], command |-> a[2], hooks |-> "none", readyDelayMs |-> d] :
        a \in ReadyAgents, d \in ReadyDelays}

\* log holds what the call does from here on
ReadyInit ==
    /\ \E busy \in BOOLEAN :
         sessions = {[name |-> OtherName, gen |-> 0, agent |-> "alive", busy |-> FALSE,
                      command |-> <<>>, env |-> EmptyEnv],
                     [name |-> SessionName, gen |-> 1, agent |-> "alive", busy |-> busy,
                      command |-> <<>>, env |-> EmptyEnv]}
    /\ hooksFile = "missing"
    /\ trustFile = {}
    /\ rc \in ReadyRuntimes
    /\ roleBead = Nil
    /\ calls = 1
    /\ pc = [p \in Callers |-> "acceptBypass"]
    /\ args = [p \in Callers |-> [NoArgs EXCEPT !.op = "Start"]]
    /\ loc = [p \in Callers |-> [NoLocals EXCEPT !.gen = 1]]
    /\ log = [p \in Callers |-> <<>>]
    /\ result = [p \in Callers |-> "none"]
    /\ faults = 0

ReadyNext ==
    \/ \E p \in Callers :
         \/ StartAcceptBypass(p)
         \/ StartCopilotReady(p)
         \/ StartStartupNudge(p)
         \/ StartFallback(p)
         \/ StartWaitReady(p)
         \/ StartPropulsionNudge(p)
    \/ AgentSettle
    \/ AgentExit

SpecReady == ReadyInit /\ [][ReadyNext]_vars

-----------------------------------------------------------------------------
(* Claims about the readiness waits *)

Max(a, b) == IF a >= b THEN a ELSE b

\* C25: every readiness wait that times out is followed at once by a sleep of
\* max(configured ready delay, 10000) ms: in WaitForCopilotReady, where an unset delay
\* counts as 3000 ms, as in Start's wait before the propulsion nudge, for every
\* provider; so no sleep after a failed wait is shorter than 10000 ms.
C25_FallbackSleepIsDelayOrFloor ==
    \A p \in Callers : \A i \in DOMAIN log[p] :
        log[p][i] = Ev("WaitForRuntimeReady", FALSE) =>
            /\ i + 1 \in DOMAIN log[p]
            /\ log[p][i + 1].op = "Sleep"
            /\ log[p][i + 1].ms = Max(rc.readyDelayMs, 10000)
            /\ log[p][i + 1].ms >= 10000

\* C25 witness: a copilot runtime without a configured delay; the wait of
\* WaitForCopilotReady and Start's wait before the propulsion nudge both timed out and
\* each was followed by a sleep of 10000 ms.
C25_Witness ==
    \E p \in Callers :
        /\ rc.provider = "copilot" /\ rc.readyDelayMs = 0
        /\ result[p] = "nil"
        /\ \E i, j \in DOMAIN log[p] :
              /\ log[p][i].op = "SleepShutdownNotifyDelay"
              /\ log[p][i + 1] = Ev("WaitForRuntimeReady", FALSE)
              /\ log[p][i + 2] = SleepEv(10000)
              /\ log[p][j].op = "PropulsionNudge"
              /\ log[p][j - 2] = Ev("WaitForRuntimeReady", FALSE)
              /\ log[p][j - 1] = SleepEv(10000)

\* C26: under a runtime that is not copilot, WaitForCopilotReady neither polls the
\* session nor sleeps: what follows Start's fixed delay is the startup nudge; under a
\* copilot runtime it polls, and when the marker is seen nothing but the startup nudge
\* follows the poll.
C26_NoWaitUnlessCopilotNoSleepWhenReady ==
    \A p \in Callers : \A i \in DOMAIN log[p] :
        log[p][i].op = "SleepShutdownNotifyDelay" =>
            IF NamesCopilot(rc)
            THEN /\ i + 1 \in DOMAIN log[p]
                 /\ log[p][i + 1].op = "WaitForRuntimeReady"
                 /\ (log[p][i + 1].ok /\ i + 2 \in DOMAIN log[p])
                       => log[p][i + 2].op = "StartupNudge"
            ELSE i + 1 \in DOMAIN log[p] => log[p][i + 1].op = "StartupNudge"

\* C26 witness: a Start under a claude runtime with the prompt hidden went from its
\* fixed delay straight to the startup nudge.
C26_Witness ==
    \E p \in Callers : \E i \in DOMAIN log[p] :
        /\ rc.provider = "claude"
        /\ ~PromptVisible(sessions, SessionName)
        /\ log[p][i].op = "SleepShutdownNotifyDelay"
        /\ i + 1 \in DOMAIN log[p]
        /\ log[p][i + 1].op = "StartupNudge"

-----------------------------------------------------------------------------
(* Claims about the command and the provider of a Start *)

\* the role config declares a start command
HasTemplate(roleConfig) == roleConfig # Nil /\ roleConfig.StartCommand # <<>>

\* the generic command of an agent, as config.BuildAgentStartupCommandWithAgentOverride
\* builds it for the witness
GenericCommand(agent) ==
    << <<"export">>, <<"GT_ROLE=witness">>, <<"&&">>, agent.command,
       <<"I am Witness for ", RigName>> >>

\* C27: the command of a Start is the expanded StartCommand of the role config exactly
\* when no agent override was given and the role config declares one; with an override
\* the template is ignored and the command is the generic one of the override's agent;
\* without both it is the generic one of the resolved runtime; and a Start that failed
\* to build the command was given an agent that does not resolve and has not asked for
\* a session.
C27_TemplateOnlyWithoutOverride ==
    \A p \in Callers :
        /\ (Starting(p) /\ loc[p].command # <<>>) =>
              LET override == args[p].agentOverride
                  templated == override = "" /\ HasTemplate(loc[p].roleConfig)
              IN /\ templated => loc[p].command = ExpandCommand(loc[p].roleConfig.StartCommand)
                 /\ (~templated /\ override # "") =>
                       /\ AgentPreset(override) # Nil
                       /\ loc[p].command = GenericCommand(AgentPreset(override))
                 /\ (~templated /\ override = "") => loc[p].command = GenericCommand(rc)
                 /\ \A s \in Created(p) : s.command = loc[p].command
        /\ (Starting(p) /\ result[p] = "ErrBuildCommand") =>
              /\ args[p].agentOverride # ""
              /\ AgentPreset(args[p].agentOverride) = Nil
              /\ ~DidOp(p, "NewSessionWithCommand")
              /\ Created(p) = {}

\* C27 witness: the role config declares a start command, the Start was given the
\* override copilot, and its session runs the generic copilot command.
C27_Witness ==
    \E p \in Callers :
        /\ Starting(p) /\ args[p].agentOverride = "copilot"
        /\ HasTemplate(loc[p].roleConfig)
        /\ \E s \in Created(p) : s.command = GenericCommand(CopilotRuntime)

\* the provider that will execute: the override, else the one read off the command
EffectiveCopilot(p) == EqualFold(loc[p].agent, "copilot")

\* C28: in a Start, trust convergence and the readiness handling both follow the
\* effective provider, the override or else the provider inferred from the command:
\* the trust list is written only for an effective copilot, and the provider-aware
\* wait after Start's fixed delay polls the session exactly when the effective
\* provider is copilot, whatever runtime the role is configured with.
C28_TrustAndReadinessFollowEffectiveProvider ==
    \A p \in Callers : Starting(p) =>
        /\ DidOp(p, "WriteTrust") => EffectiveCopilot(p)
        /\ \A i \in DOMAIN log[p] :
              (log[p][i].op = "SleepShutdownNotifyDelay" /\ i + 1 \in DOMAIN log[p])
                  => (log[p][i + 1].op = "WaitForRuntimeReady" <=> EffectiveCopilot(p))

\* what holds of C28: the trust list follows the effective provider, the readiness
\* handling the runtime the role is configured with
C28_ReadinessFollowsRoleRuntime ==
    \A p \in Callers : Starting(p) =>
        /\ DidOp(p, "WriteTrust") => EffectiveCopilot(p)
        /\ \A i \in DOMAIN log[p] :
              (log[p][i].op = "SleepShutdownNotifyDelay" /\ i + 1 \in DOMAIN log[p])
                  => (log[p][i + 1].op = "WaitForRuntimeReady" <=> NamesCopilot(rc))

-----------------------------------------------------------------------------
(* Claims about the order of the steps of a Start and about its fatal errors *)

\* One Start, from every condition it can find the session in: none, a zombie left by
\* an agent that exited, a healthy one.
OtherSession == [name |-> OtherName, gen |-> 0, agent |-> "alive", busy |-> FALSE,
                 command |-> <<>>, env |-> EmptyEnv]
FoundSession(agent) == [name |-> SessionName, gen |-> 0, agent |-> agent, busy |-> FALSE,
                        command |-> <<"claude">>, env |-> EmptyEnv]
FoundSessions ==
    { {OtherSession},
      {OtherSession, FoundSession("dead")},
      {OtherSession, FoundSession("alive")} }

StartInit ==
    /\ sessions \in FoundSessions
    /\ hooksFile \in {"missing", "malformed"}
    /\ trustFile = {}
    /\ rc \in RuntimeConfigs
    /\ roleBead \in RoleBeads
    /\ calls = 0
    /\ pc = [p \in Callers |-> "idle"]
    /\ args = [p \in Callers |-> NoArgs]
    /\ loc = [p \in Callers |-> NoLocals]
    /\ log = [p \in Callers |-> <<>>]
    /\ result = [p \in Callers |-> "none"]
    /\ faults = 0

StartNext ==
    \/ \E p \in Callers :
         \/ \E in \in StartInputs : StartEntry(p, in[1], in[2], in[3])
         \/ StartCheckSession(p)
         \/ StartEnsureSettings(p)
         \/ StartRoleConfig(p)
         \/ StartBuildCommand(p)
         \/ StartTrust(p)
         \/ StartCreateSession(p)
         \/ StartSetEnvironment(p)
         \/ StartTheme(p)
         \/ StartWaitForCommand(p)
         \/ StartAcceptBypass(p)
         \/ StartCopilotReady(p)
         \/ StartStartupNudge(p)
         \/ StartFallback(p)
         \/ StartWaitReady(p)
         \/ StartPropulsionNudge(p)
    \/ AgentUp
    \/ AgentExit
    \/ AgentSettle
    \/ ExternalKill

SpecStart == StartInit /\ [][StartNext]_vars

ConvergenceOps == {"WriteHooks", "WriteTrust"}
ConvergenceErrors == {"ErrSettings", "ErrResolveAgent", "ErrTrust"}

\* the places of an operation in a call's record
Places(p, op) == {i \in DOMAIN log[p] : log[p][i].op = op}

\* C31: a Start that calls NewSessionWithCommand has by then converged the hook
\* settings and the trust list: every write of either precedes the call and succeeded,
\* the settings file needs no further write, and the work directory is trusted when
\* the agent is copilot; a Start in which either convergence failed returns that error
\* and has neither called NewSessionWithCommand nor left a session of its own.
C31_ConvergedBeforeSessionCreated ==
    \A p \in Callers : Starting(p) =>
        /\ \A i \in Places(p, "NewSessionWithCommand") :
              /\ \A j \in DOMAIN log[p] :
                    log[p][j].op \in ConvergenceOps => (j < i /\ log[p][j].ok)
              /\ ~HooksNeedWrite(rc, hooksFile)
              /\ ~HooksUnreadable(rc, hooksFile)
              /\ loc[p].agent = "copilot" => WitnessDir \in trustFile
        /\ (\E j \in DOMAIN log[p] : log[p][j].op \in ConvergenceOps /\ ~log[p][j].ok) =>
              pc[p] = "done" /\ result[p] \in ConvergenceErrors
        /\ result[p] \in ConvergenceErrors =>
              Places(p, "NewSessionWithCommand") = {} /\ Created(p) = {}

\* C31 witness: both files were written, then the session was created.
C31_Witness ==
    \E p \in Callers :
        /\ Starting(p)
        /\ Did(p, Ev("WriteHooks", TRUE))
        /\ Did(p, Ev("WriteTrust", TRUE))
        /\ Did(p, Ev("NewSessionWithCommand", TRUE))

\* the operations whose order C32 is about, in that order
OrderedOps == <<"NewSessionWithCommand", "WaitForCommand", "StartupNudge", "FallbackNudge",
                "PropulsionNudge">>

\* the waits for the prompt a Start owes: the one before the propulsion nudge, and for
\* a copilot runtime the provider-aware one after the fixed delay and the one that
\* opens the startup fallback
WaitsBeforeStartupNudge(r) == IF NamesCopilot(r) THEN 1 ELSE 0
WaitsAfterStartupNudge(r) == IF NamesCopilot(r) THEN 2 ELSE 1

\* C32: in a Start that returned nil, session creation, the wait for the command, the
\* startup nudge, the fallback commands (if there are any) and the propulsion nudge
\* were each issued once (the fallback at most once), in this order; the wait for the
\* prompt that precedes the propulsion nudge was issued once, after the earlier nudges,
\* with nothing but its own fallback sleep between it and the propulsion nudge (the
\* only other waits for the prompt are the provider-aware ones of a copilot runtime);
\* and the propulsion nudge is the last entry of the call's record.
C32_BackendOperationsInOrder ==
    \A p \in Callers : (Starting(p) /\ result[p] = "nil") =>
        /\ \A k \in DOMAIN OrderedOps :
              /\ Cardinality(Places(p, OrderedOps[k])) <= 1
              /\ OrderedOps[k] # "FallbackNudge" => Cardinality(Places(p, OrderedOps[k])) = 1
        /\ \A k, l \in DOMAIN OrderedOps :
              k < l => \A i \in Places(p, OrderedOps[k]), j \in Places(p, OrderedOps[l]) : i < j
        /\ \A n \in Places(p, "PropulsionNudge"), m \in Places(p, "StartupNudge") :
              LET waits == Places(p, "WaitForRuntimeReady") IN
              /\ n = Len(log[p])
              /\ Cardinality({i \in waits : i < m}) = WaitsBeforeStartupNudge(rc)
              /\ Cardinality({i \in waits : i > m}) = WaitsAfterStartupNudge(rc)
              /\ \E w \in waits :
                    /\ \A i \in waits : i <= w
                    /\ \A j \in Places(p, "FallbackNudge") : j < w
                    /\ w < n
                    /\ \A i \in (w + 1)..(n - 1) : log[p][i].op = "Sleep"

\* C32 witness: a Start returned nil having sent fallback commands.
C32_Witness ==
    \E p \in Callers :
        /\ Starting(p) /\ result[p] = "nil"
        /\ DidOp(p, "FallbackNudge")

\* C38: when KillSession fails on a zombie, Start returns that error at once: its
\* record ends with the failed kill and holds nothing but the two queries before it,
\* so no file was written, no session created, no variable set and no nudge sent,
\* and no session carries this call's mark.
C38_FailedZombieKillStopsStart ==
    \A p \in Callers :
        (Starting(p) /\ (Did(p, Ev("KillSession", FALSE)) \/ result[p] = "ErrKillZombie")) =>
            /\ pc[p] = "done"
            /\ result[p] = "ErrKillZombie"
            /\ log[p] = <<Ev("HasSession", TRUE), Ev("IsClaudeRunning", TRUE),
                          Ev("KillSession", FALSE)>>
            /\ loc[p].seen = "zombie"
            /\ Created(p) = {}

\* C38 witness: the kill failed and the stale session is still there.
C38_Witness ==
    \E p \in Callers :
        /\ Starting(p) /\ result[p] = "ErrKillZombie"
        /\ \E s \in sessions : Ours(s) /\ s.agent = "dead"

\* C40: a call whose HasSession failed returns the error of that query: Stop does not
\* answer ErrNotRunning, and Start issues nothing after the query.
C40_QueryFailureIsSurfaced ==
    \A p \in Callers :
        Did(p, Ev("HasSession", FALSE)) =>
            /\ pc[p] = "done"
            /\ result[p] = "ErrCheckingSession"
            /\ Len(log[p]) = 1

\* what holds of C40: Status returns the error of a failed query
C40_StatusSurfacesQueryFailure ==
    \A p \in Callers :
        (args[p].op = "Status" /\ Did(p, Ev("HasSession", FALSE))) =>
            /\ pc[p] = "done"
            /\ result[p] = "ErrCheckingSession"
            /\ Len(log[p]) = 1

-----------------------------------------------------------------------------
(* The role classifiers, applied to role names of every kind *)

MaxRoleCalls == 2

RoleNames ==
    {"polecat", "witness", "refinery", "deacon", "Polecat", "WITNESS",
     "mayor", "crew", "", "unknown"}

\* daemon_test.go:117-121: the template requiredHooksForRole reads
TemplatePath(role) ==
    IF RoleTypeFor(role) = "autonomous"
    THEN "config/hooks-autonomous.json" ELSE "config/hooks-interactive.json"

\* the record of one call: its role, the class or path or commands it answered, and for
\* StartupFallbackCommands whether the hooks file was there
RoleCall(op, role, class, path, available, commands) ==
    [op |-> op, role |-> role, class |-> class, path |-> path, available |-> available,
     commands |-> commands]

\* speckit: CLIGenerator.GetCommands (part_001:324-344)
GetCommands(roleType, gtPath) ==
    LET gt == IF gtPath = "" THEN "gt" ELSE gtPath IN
    <<gt \o " prime">>
        \o (IF roleType = "autonomous" THEN <<gt \o " mail check --inject">> ELSE <<>>)
        \o <<gt \o " nudge deacon session-started">>

\* strings.Join
strings_Join(elems, sep) ==
    LET joined[i \in 0..Len(elems)] ==
            IF i = 0 THEN ""
            ELSE IF i = 1 THEN elems[1]
            ELSE joined[i - 1] \o sep \o elems[i]
    IN joined[Len(elems)]

\* speckit: CLIFallbackCommandString (part_001:363-369) with GetCommandString (347-350)
CLIFallbackCommandString(role, gtPath) ==
    strings_Join(GetCommands(RoleTypeFor(role), gtPath), " && ")

CliRoles == {"witness", "WITNESS", "crew", ""}
GtPaths == {"", "/custom/path/gt"}

\* a runtime whose hook provider is spelled with capitals
OpencodeRuntime ==
    [provider |-> "opencode", command |-> <<"opencode">>, hooks |-> "OpenCode",
     readyDelayMs |-> 0]
RoleRuntimes == RuntimeConfigs \cup {OpencodeRuntime}

CallRoleTypeFor(p, role) ==
    /\ calls < MaxRoleCalls
    /\ calls' = calls + 1
    /\ Logged(p, <<RoleCall("RoleTypeFor", role, RoleTypeFor(role), "", FALSE, <<>>)>>)
    /\ UNCHANGED <<sessions, hooksFile, trustFile, rc, roleBead, pc, args, loc, result, faults>>

CallRequiredHooksForRole(p, role) ==
    /\ calls < MaxRoleCalls
    /\ calls' = calls + 1
    /\ Logged(p, <<RoleCall("requiredHooksForRole", role, "", TemplatePath(role), FALSE, <<>>)>>)
    /\ UNCHANGED <<sessions, hooksFile, trustFile, rc, roleBead, pc, args, loc, result, faults>>

CallStartupFallbackCommands(p, role, hooksAvailable) ==
    /\ calls < MaxRoleCalls
    /\ calls' = calls + 1
    /\ Logged(p, <<RoleCall("StartupFallbackCommands", role, "", "", hooksAvailable,
                            StartupFallbackCommands(role, rc, hooksAvailable))>>)
    /\ UNCHANGED <<sessions, hooksFile, trustFile, rc, roleBead, pc, args, loc, result, faults>>

\* path: the gt binary the caller names
CallCLIFallbackCommandString(p, role, gtPath) ==
    /\ calls < MaxRoleCalls
    /\ calls' = calls + 1
    /\ Logged(p, <<RoleCall("CLIFallbackCommandString", role, "", gtPath, FALSE,
                            <<CLIFallbackCommandString(role, gtPath)>>)>>)
    /\ UNCHANGED <<sessions, hooksFile, trustFile, rc, roleBead, pc, args, loc, result, faults>>

RolesInit ==
    /\ rc \in RoleRuntimes
    /\ sessions = {}
    /\ hooksFile = "missing"
    /\ trustFile = {}
    /\ roleBead = Nil
    /\ calls = 0
    /\ pc = [p \in Callers |-> "idle"]
    /\ args = [p \in Callers |-> NoArgs]
    /\ loc = [p \in Callers |-> NoLocals]
    /\ log = [p \in Callers |-> <<>>]
    /\ result = [p \in Callers |-> "none"]
    /\ faults = 0

RolesNext ==
    \E p \in Callers, role \in RoleNames :
        \/ CallRoleTypeFor(p, role)
        \/ CallRequiredHooksForRole(p, role)
        \/ \E hooksAvailable \in BOOLEAN : CallStartupFallbackCommands(p, role, hooksAvailable)
        \/ \E gtPath \in GtPaths : role \in CliRoles /\ CallCLIFallbackCommandString(p, role, gtPath)

SpecRoles == RolesInit /\ [][RolesNext]_vars

-----------------------------------------------------------------------------
(* Claims about the role classifiers *)

\* the spellings, among RoleNames, of polecat, witness, refinery and deacon
AutonomousSpellings == {"polecat", "witness", "refinery", "deacon", "Polecat", "WITNESS"}

-----------------------------------------------------------------------------
(* internal/speckit: the generators of agent configuration files. Here        *)
(* hooksFile holds the files of the work directory, one per generator.        *)

MaxGenerateCalls == 2

AgentTypes == {"claude", "copilot", "cursor", "mcp", "cli", "gemini"}
RoleTypes == {"autonomous", "interactive"}

\* the generators that write a file, and Generator.Path of each
FileAgents == {"claude", "copilot", "cursor", "mcp"}
GeneratorPath(agentType) ==
    CASE agentType = "claude" -> ".claude/settings.json"
      [] agentType = "copilot" -> ".github/copilot-instructions.md"
      [] agentType = "cursor" -> ".cursor/mcp.json"
      [] agentType = "mcp" -> ".mcp/servers.json"
      [] OTHER -> ""

\* the embedded template a generator copies
TemplateName(agentType, roleType) ==
    CASE agentType = "claude" ->
             IF roleType = "autonomous" THEN "config/claude-settings-autonomous.json"
             ELSE "config/claude-settings-interactive.json"
      [] agentType = "copilot" ->
             IF roleType = "autonomous" THEN "config/copilot-instructions-autonomous.md"
             ELSE "config/copilot-instructions-interactive.md"
      [] agentType = "cursor" -> "config/cursor-mcp.json"
      [] OTHER -> "config/mcp-servers.json"

\* a file: absent, or present with its content (the name of the template it copies,
\* the user's own text, or nothing when a write stopped after creating it)
AbsentFile == [exists |-> FALSE, content |-> ""]
FileWith(content) == [exists |-> TRUE, content |-> content]
OriginalFile == FileWith("original settings")

WorkDirs ==
    { [a \in FileAgents |-> AbsentFile],
      [a \in FileAgents |-> OriginalFile],
      [a \in FileAgents |-> IF a = "claude" THEN OriginalFile ELSE AbsentFile],
      [a \in FileAgents |-> IF a = "claude" THEN AbsentFile ELSE OriginalFile] }

\* what the file system lets a generator do: everything, no directory, no file
\* opened, or a file created and the write failing
DiskOutcomes == {"ok", "mkdir fails", "open fails", "write fails"}

GenerateCall(agentType, roleType, before, after, err) ==
    [op |-> "EnsureConfig", agent |-> agentType, roleType |-> roleType,
     before |-> before, after |-> after, err |-> err]

\* mutation: the template written without looking for the file
EnsureConfigOverwriting(p, agentType, roleType, disk) ==
    /\ calls < MaxGenerateCalls
    /\ calls' = calls + 1
    /\ LET err == CASE agentType \notin FileAgents \cup {"cli"} -> "ErrUnknownAgentType"
                    [] agentType = "cli" -> "nil"
                    [] disk = "mkdir fails" -> "ErrCreatingDirectory"
                    [] disk \in {"open fails", "write fails"} -> "ErrWriting"
                    [] OTHER -> "nil"
           file == CASE agentType \notin FileAgents -> AbsentFile
                     [] disk \in {"mkdir fails", "open fails"} -> hooksFile[agentType]
                     [] disk = "write fails" -> FileWith("")
                     [] OTHER -> FileWith(TemplateName(agentType, roleType))
       IN /\ hooksFile' = IF agentType \in FileAgents
                          THEN [hooksFile EXCEPT ![agentType] = file] ELSE hooksFile
          /\ Logged(p, <<GenerateCall(agentType, roleType, hooksFile, hooksFile', err)>>)
    /\ UNCHANGED <<sessions, trustFile, rc, roleBead, pc, args, loc, result, faults>>

\* EnsureConfig (part_001:137-145) with GetGenerator and the Generate of each generator
\* (part_001:164-198, 207-241, 250-275, 284-309, 318-321)
EnsureConfig(p, agentType, roleType, disk) ==
    /\ calls < MaxGenerateCalls
    /\ calls' = calls + 1
    /\ LET found == agentType \in FileAgents /\ hooksFile[agentType].exists
           err == CASE agentType \notin FileAgents \cup {"cli"} -> "ErrUnknownAgentType"
                    [] agentType = "cli" -> "nil"
                    [] found -> "nil"
                    [] disk = "mkdir fails" -> "ErrCreatingDirectory"
                    [] disk \in {"open fails", "write fails"} -> "ErrWriting"
                    [] OTHER -> "nil"
           file == CASE agentType \notin FileAgents -> AbsentFile
                     [] found -> hooksFile[agentType]
                     [] disk \in {"mkdir fails", "open fails"} -> hooksFile[agentType]
                     [] disk = "write fails" -> FileWith("")
                     [] OTHER -> FileWith(TemplateName(agentType, roleType))
       IN /\ hooksFile' = IF agentType \in FileAgents
                          THEN [hooksFile EXCEPT ![agentType] = file] ELSE hooksFile
          /\ Logged(p, <<GenerateCall(agentType, roleType, hooksFile, hooksFile', err)>>)
    /\ UNCHANGED <<sessions, trustFile, rc, roleBead, pc, args, loc, result, faults>>

GenerateInit ==
    /\ hooksFile \in WorkDirs
    /\ sessions = {}
    /\ trustFile = {}
    /\ rc = ClaudeRuntime
    /\ roleBead = Nil
    /\ calls = 0
    /\ pc = [p \in Callers |-> "idle"]
    /\ args = [p \in Callers |-> NoArgs]
    /\ loc = [p \in Callers |-> NoLocals]
    /\ log = [p \in Callers |-> <<>>]
    /\ result = [p \in Callers |-> "none"]
    /\ faults = 0

GenerateNext ==
    \E p \in Callers, agentType \in AgentTypes, roleType \in RoleTypes, disk \in DiskOutcomes :
        EnsureConfig(p, agentType, roleType, disk)

SpecGenerate == GenerateInit /\ [][GenerateNext]_vars

-----------------------------------------------------------------------------
(* Claims about the generators *)

GenerateCallsOf(p) == {i \in DOMAIN log[p] : log[p][i].op = "EnsureConfig"}

\* C30: no call of a file-writing generator changes a file that exists: a call finding
\* its target returns nil and leaves every file as it was, and a call changes no file
\* but its own target; so after any calls, with any role types, a file that was there
\* at the start has its first content, and one that was not is absent or is what the
\* first call that created it wrote.
C30_ExistingFileNeverChanged ==
    \A p \in Callers :
        /\ \A i \in GenerateCallsOf(p) :
              LET c == log[p][i] IN
              /\ \A a \in FileAgents :
                    (c.before[a].exists \/ a # c.agent) => c.after[a] = c.before[a]
              /\ (c.agent \in FileAgents /\ c.before[c.agent].exists)
                    => c.err = "nil" /\ c.after = c.before
        /\ log[p] # <<>> =>
              \A a \in FileAgents :
                  LET initial == log[p][1].before[a]
                      creating == {i \in DOMAIN log[p] :
                                      ~log[p][i].before[a].exists /\ log[p][i].after[a].exists}
                  IN IF initial.exists THEN hooksFile[a] = initial
                     ELSE IF creating = {} THEN hooksFile[a] = AbsentFile
                     ELSE /\ Cardinality(creating) = 1
                          /\ \A i \in creating : hooksFile[a] = log[p][i].after[a]

\* C30 witness: the autonomous Claude settings were generated into an empty directory
\* and a second call, for the interactive role type, left them as they were.
C30_Witness ==
    \E p \in Callers :
        /\ Len(log[p]) = 2
        /\ log[p][1].agent = "claude" /\ log[p][1].roleType = "autonomous"
        /\ ~log[p][1].before["claude"].exists /\ log[p][1].err = "nil"
        /\ log[p][2].agent = "claude" /\ log[p][2].roleType = "interactive"
        /\ log[p][2].err = "nil"
        /\ hooksFile["claude"] = FileWith("config/claude-settings-autonomous.json")

-----------------------------------------------------------------------------
(* EnsureHooksForRole called by several processes on one hooks file: each call reads *)
(* the file, merges in memory and replaces the file. pc, loc and log are kept per    *)
(* process of HookWriters; loc holds what the call read.                             *)

MaxHookRaceCalls == 3

HookWriters == {"a", "b"}

\* the documents the race starts from: none, unreadable text, the user's own hook,
\* a document that already holds the session-start hook
RaceDocuments ==
    { NoDocument("missing"),
      NoDocument("malformed"),
      [kind |-> "json", version |-> [set |-> TRUE, n |-> 1],
       hooks |-> [set |-> TRUE, map |-> "sessionStart" :> <<UserHook>>], extra |-> NoExtra],
      [kind |-> "json", version |-> [set |-> TRUE, n |-> 1],
       hooks |-> [set |-> TRUE, map |-> "sessionStart" :> <<PrimeHook>>], extra |-> NoExtra] }

RaceRoles == {"witness", "crew"}

NoRead == [role |-> "", template |-> Nil, read |-> Nil]

\* daemon_test.go:78-92: the file is read (readHooksConfig) and the template loaded
ReadHooks(p, role, template) ==
    /\ pc[p] = "idle"
    /\ calls < MaxHookRaceCalls
    /\ calls' = calls + 1
    /\ loc' = [loc EXCEPT ![p] = [role |-> role, template |-> template, read |-> hooksFile]]
    /\ IF readHooksConfig(hooksFile.content).ok
       THEN Goto(p, "merged") /\ UNCHANGED log
       ELSE /\ Goto(p, "idle")
            /\ Logged(p, <<HookCall(role, "hooks.json", template, hooksFile, hooksFile,
                                    "ErrParsingHooks")>>)
    /\ UNCHANGED <<sessions, hooksFile, trustFile, rc, roleBead, args, result, faults>>

\* mutation: the file written in place, emptied first and filled in a second step
ReplaceHooksInPlace(p, writable) ==
    /\ pc[p] \in {"merged", "writing"}
    /\ LET existing == readHooksConfig(loc[p].read.content)
           required == [requiredHooksForRole(loc[p].template) EXCEPT !.Version = 1]
           merge == mergeHooks(existing.cfg, required)
       IN IF pc[p] = "merged" /\ merge.updated /\ writable
          THEN /\ hooksFile' = [content |-> NoDocument("blank"), mtime |-> hooksFile.mtime + 1]
               /\ Goto(p, "writing")
               /\ UNCHANGED log
          ELSE /\ hooksFile' = IF pc[p] = "writing"
                               THEN [content |-> MarshalHooksConfig(merge.cfg),
                                     mtime |-> hooksFile.mtime]
                               ELSE hooksFile
               /\ Goto(p, "idle")
               /\ Logged(p, <<HookCall(loc[p].role, "hooks.json", loc[p].template,
                                       loc[p].read,
                                       IF pc[p] = "writing" THEN hooksFile' ELSE loc[p].read,
                                       IF merge.updated /\ pc[p] = "merged"
                                       THEN "ErrWritingHooks" ELSE "nil")>>)
    /\ loc' = IF pc'[p] = "idle" THEN [loc EXCEPT ![p] = NoRead] ELSE loc
    /\ UNCHANGED <<sessions, trustFile, rc, roleBead, calls, args, result, faults>>

\* daemon_test.go:94-113: mergeHooks on what was read, and if it changed anything
\* util.AtomicWriteFile, which puts the whole new document in the file's place in one
\* step or, failing, leaves the file as it is
ReplaceHooks(p, writable) ==
    /\ pc[p] = "merged"
    /\ LET existing == readHooksConfig(loc[p].read.content)
           required == [requiredHooksForRole(loc[p].template) EXCEPT !.Version = 1]
           merge == mergeHooks(existing.cfg, required)
           written == merge.updated /\ writable
       IN /\ hooksFile' = IF written
                          THEN [content |-> MarshalHooksConfig(merge.cfg),
                                mtime |-> hooksFile.mtime + 1]
                          ELSE hooksFile
          /\ Logged(p, <<HookCall(loc[p].role, "hooks.json", loc[p].template,
                                  loc[p].read, IF written THEN hooksFile' ELSE loc[p].read,
                                  IF merge.updated /\ ~writable
                                  THEN "ErrWritingHooks" ELSE "nil")>>)
    /\ Goto(p, "idle")
    /\ loc' = [loc EXCEPT ![p] = NoRead]
    /\ UNCHANGED <<sessions, trustFile, rc, roleBead, calls, args, result, faults>>

HooksRaceInit ==
    /\ hooksFile \in {[content |-> c, mtime |-> 0] : c \in RaceDocuments}
    /\ sessions = {}
    /\ trustFile = {}
    /\ rc = CopilotRuntime
    /\ roleBead = Nil
    /\ calls = 0
    /\ pc = [p \in HookWriters |-> "idle"]
    /\ args = [p \in HookWriters |-> NoArgs]
    /\ loc = [p \in HookWriters |-> NoRead]
    /\ log = [p \in HookWriters |-> <<>>]
    /\ result = [p \in HookWriters |-> "none"]
    /\ faults = 0

HooksRaceNext ==
    \E p \in HookWriters :
        \/ \E role \in RaceRoles : \E template \in HookTemplates(RoleTypeFor(role)) :
              ReadHooks(p, role, template)
        \/ \E writable \in BOOLEAN : ReplaceHooks(p, writable)

SpecHooksRace == HooksRaceInit /\ [][HooksRaceNext]_vars

-----------------------------------------------------------------------------
(* Claims about interleaved convergence *)

\* the document a call's merge makes of the file the call read
MergeResult(c) ==
    MarshalHooksConfig(
        mergeHooks(readHooksConfig(c.before.content).cfg,
                   [requiredHooksForRole(c.template) EXCEPT !.Version = 1]).cfg)

\* the calls that have replaced the file (a call's record holds the file it read
\* and, if it wrote, the file it left)
Replacements ==
    {c \in UNION {{log[p][i] : i \in DOMAIN log[p]} : p \in HookWriters} :
        c.err = "nil" /\ c.after # c.before}

\* C33: with calls of several processes interleaved, the file is at every moment either
\* as it was at the start (never replaced) or exactly the document one call made by
\* merging into the file that call had read; a call that replaces nothing leaves the
\* file to the others.
C33_ObservedDocumentIsOriginalOrOneMerge ==
    /\ hooksFile.mtime = 0 => Replacements = {}
    /\ hooksFile.mtime > 0 =>
          \E c \in Replacements : c.after = hooksFile /\ hooksFile.content = MergeResult(c)
    /\ \A c \in Replacements : c.after.content = MergeResult(c)

\* C33 witness: two calls read the same file, both replaced it, and the entry the first
\* writer added is missing from the file the last writer left.
C33_Witness ==
    \E c, d \in Replacements :
        /\ c.before = d.before
        /\ c.after.mtime < d.after.mtime
        /\ d.after = hooksFile
        /\ "preCompact" \in DOMAIN DiskHooks(c.after.content)
        /\ "preCompact" \notin DOMAIN DiskHooks(hooksFile.content)
        /\ \A p \in HookWriters : pc[p] = "idle"

-----------------------------------------------------------------------------
(* Claims about the comparison of hook entries *)

\* C34: in a successful EnsureHooksForRole, a required entry is appended exactly when
\* no entry of the same hook name equals it in every field, wherever in the list such
\* an entry stands: an entry found keeps its number of occurrences, an entry not found
\* occurs once afterwards, and an entry with the same command but another field neither
\* counts as a match nor is removed (the stored list stays a prefix of the new one).
C34_EntriesComparedInEveryField ==
    \A p \in Callers : \A i \in HookCallsOf(p) :
        LET c == log[p][i] IN
        c.err = "nil" =>
            \A n \in DOMAIN c.template.hooks :
                LET stored == EntriesOf(DiskHooks(c.before.content), n)
                    merged == EntriesOf(DiskHooks(c.after.content), n)
                IN /\ IsPrefix(stored, merged)
                   /\ \A k \in DOMAIN c.template.hooks[n] :
                         LET e == c.template.hooks[n][k] IN
                         Count(merged, e) = IF Count(stored, e) > 0 THEN Count(stored, e) ELSE 1

\* C34 witness: the file held the required command with a comment of the user's; the
\* required entry was appended after it and both are in the file.
C34_Witness ==
    \E p \in Callers : \E i \in HookCallsOf(p) :
        LET c == log[p][i] IN
        /\ c.err = "nil"
        /\ EntriesOf(DiskHooks(c.before.content), "sessionStart") = <<CommentedPrimeHook>>
        /\ EntriesOf(DiskHooks(c.after.content), "sessionStart") = <<CommentedPrimeHook, PrimeHook>>
        /\ hooksFile = c.after

-----------------------------------------------------------------------------
(* Claims about the startup fallback commands *)

MailCommand == "gt prime && gt mail check --inject && gt nudge deacon session-started"
PlainCommand == "gt prime && gt nudge deacon session-started"

\* C35: StartupFallbackCommands returns no command when the hook provider, in any
\* case of letters, is claude or opencode, or is copilot and the hooks file is there;
\* otherwise it returns one command: gt prime, then the mail check for autonomous
\* roles only, then the nudge of the deacon, joined by " && ". That is the text
\* CLIFallbackCommandString gives with the default gt binary for the same role.
C35_FallbackCommandsWhenNoHooks ==
    \A p \in Callers : \A i \in DOMAIN log[p] :
        LET c == log[p][i]
            provider == ToLower(rc.hooks)
            hooked == provider \in {"claude", "opencode"} \/ (provider = "copilot" /\ c.available)
            expected == IF c.role \in AutonomousSpellings THEN MailCommand ELSE PlainCommand
        IN /\ c.op = "StartupFallbackCommands" =>
                 /\ hooked => c.commands = <<>>
                 /\ ~hooked => c.commands = <<expected>>
                 /\ expected = strings_Join(GetCommands(RoleTypeFor(c.role), ""), " && ")
           /\ (c.op = "CLIFallbackCommandString" /\ c.path \in {"", "gt"}) =>
                 c.commands = <<expected>>

\* C35 witness: under copilot without its hooks file the fallback for the witness is
\* the command with the mail check, and CLIFallbackCommandString gave the same text.
C35_Witness ==
    \E p \in Callers :
        /\ Len(log[p]) = 2
        /\ rc.hooks = "copilot"
        /\ log[p][1].op = "StartupFallbackCommands" /\ ~log[p][1].available
        /\ log[p][2].op = "CLIFallbackCommandString" /\ log[p][2].path = ""
        /\ log[p][1].role = "witness" /\ log[p][2].role = "witness"
        /\ log[p][1].commands = <<MailCommand>>
        /\ log[p][2].commands = log[p][1].commands

-----------------------------------------------------------------------------
(* defaultAgentOverride applied to every command of up to MaxFields fields *)

MaxFields == 4

CommandFields ==
    { <<"export">>, <<"A=1">>, <<"&&">>, <<"exec">>, <<"env">>, <<"-i">>, <<"--">>,
      <<"usr", "bin", "copilot">>, <<"claude">> }

Commands == UNION {[1..n -> CommandFields] : n \in 0..MaxFields}

\* the call defaultAgentOverride(command)
OverrideArgs(command) == [op |-> "defaultAgentOverride", command |-> command]

CallDefaultAgentOverride(p) ==
    /\ pc[p] = "idle"
    /\ Logged(p, <<[op |-> "defaultAgentOverride", command |-> args[p].command,
                    agent |-> defaultAgentOverride(args[p].command)]>>)
    /\ Goto(p, "done")
    /\ UNCHANGED <<sessions, hooksFile, trustFile, rc, roleBead, calls, args, loc, result,
                   faults>>

AgentInit ==
    /\ sessions = {}
    /\ hooksFile = "missing"
    /\ trustFile = {}
    /\ rc = ClaudeRuntime
    /\ roleBead = Nil
    /\ calls = 0
    /\ pc = [p \in Callers |-> "idle"]
    /\ args \in [Callers -> {OverrideArgs(command) : command \in Commands}]
    /\ loc = [p \in Callers |-> NoLocals]
    /\ log = [p \in Callers |-> <<>>]
    /\ result = [p \in Callers |-> "none"]
    /\ faults = 0

AgentNext == \E p \in Callers : CallDefaultAgentOverride(p)

SpecAgent == AgentInit /\ [][AgentNext]_vars

-----------------------------------------------------------------------------
(* Claims about defaultAgentOverride *)

\* the places a command can be read from once leading "export ... &&" segments are
\* gone: the first field and the fields after a "&&", as long as every such place
\* before it holds an "export"
AfterExport(c, k) ==
    LET Boundary(m) == m = 1 \/ c[m - 1] = <<"&&">> IN
    /\ Boundary(k)
    /\ \A m \in 1..(k - 1) : Boundary(m) => c[m] = <<"export">>

\* where the agent's field stands in c (Len(c) + 1 if nothing remains)
AgentPlace(c) ==
    LET n == Len(c)
        Is(k, w) == k <= n /\ c[k] = <<w>>
        e == CHOOSE k \in 1..(n + 1) :
                 AfterExport(c, k) /\ \A l \in (k + 1)..(n + 1) : ~AfterExport(c, l)
        x == IF Is(e, "exec") THEN e + 1 ELSE e
        Arg(k) == k <= n /\ (c[k][1] \in OptionWords \/ c[k][1] \in AssignWords)
        v == CHOOSE k \in (x + 1)..(n + 1) :
                 /\ \A m \in (x + 1)..(k - 1) : Arg(m)
                 /\ ~Arg(k)
        w == IF Is(v, "--") THEN v + 1 ELSE v
    IN IF Is(x, "env") THEN w ELSE x

\* C36: defaultAgentOverride answers the base name of the first field left once every
\* leading "export ... &&" segment, then one exec, then one env with the options and
\* assignments after it and one "--" have been taken away, and the empty string when
\* the command is empty or nothing is left; it answers for every command.
C36_AgentIsFirstFieldAfterPrefixes ==
    \A p \in Callers : \A i \in DOMAIN log[p] :
        LET c == log[p][i].command
            k == AgentPlace(c)
        IN log[p][i].op = "defaultAgentOverride" =>
              log[p][i].agent = IF k > Len(c) THEN "" ELSE c[k][Len(c[k])]

\* C36 witness: "exec env -- /usr/bin/copilot" was given and copilot was answered.
C36_Witness ==
    \E p \in Callers :
        /\ pc[p] = "done"
        /\ log[p][1].command = << <<"exec">>, <<"env">>, <<"--">>, <<"usr", "bin", "copilot">> >>
        /\ log[p][1].agent = "copilot"

-----------------------------------------------------------------------------
(* Claims about the directory a polecat's call trusts *)

\* dir itself or a path below it
InsideDir(path, dir) == path = dir \/ strings_HasPrefix(path, dir \o <<Sep>>)

\* C37: a polecat's call trusts RigPath/polecats only when its working directory is
\* that directory or lies inside it; a working directory outside it, a sibling such as
\* RigPath/polecats-old/a included, is trusted as itself, and a call of any other role
\* trusts its working directory.
C37_ParentTrustedOnlyForDirectoriesInside ==
    \A p \in Callers : \A i \in DOMAIN log[p] :
        LET c == log[p][i] IN
        (c.op = "EnsureCopilotTrustedFolder" /\ c.copilot)
        => c.trustPath =
              IF /\ c.cfg.Role = "polecat"
                 /\ c.cfg.RigPath # <<>>
                 /\ InsideDir(filepath_Clean(c.cfg.WorkDir),
                              filepath_Clean(c.cfg.RigPath \o <<Sep, "polecats">>))
              THEN filepath_Clean(c.cfg.RigPath \o <<Sep, "polecats">>)
              ELSE c.cfg.WorkDir

\* the part of C37 about the other roles: their calls trust the working directory
C37_OtherRolesTrustWorkDir ==
    \A p \in Callers : \A i \in DOMAIN log[p] :
        (log[p][i].op = "EnsureCopilotTrustedFolder" /\ log[p][i].cfg.Role # "polecat")
        => log[p][i].trustPath = log[p][i].cfg.WorkDir

-----------------------------------------------------------------------------
(* Two calls of Start for the same witness, their steps interleaved. The agent does
   not exit and nobody kills the session from outside, so that a session that
   disappears was killed by one of the two calls. *)

Racers == {"a", "b"}

\* Start(false, "", nil) and Start(false, "copilot", nil)
RaceInputs == {<<FALSE, "", <<>> >>, <<FALSE, "copilot", <<>> >>}

StartRaceInit ==
    /\ sessions = {OtherSession}
    /\ hooksFile = "missing"
    /\ trustFile = {}
    /\ rc = ClaudeRuntime
    /\ roleBead = Nil
    /\ calls = 0
    /\ pc = [p \in Racers |-> "idle"]
    /\ args = [p \in Racers |-> NoArgs]
    /\ loc = [p \in Racers |-> NoLocals]
    /\ log = [p \in Racers |-> <<>>]
    /\ result = [p \in Racers |-> "none"]
    /\ faults = 0

StartRaceNext ==
    \/ \E p \in Racers :
         \/ \E in \in RaceInputs : StartEntry(p, in[1], in[2], in[3])
         \/ StartCheckSession(p)
         \/ StartEnsureSettings(p)
         \/ StartRoleConfig(p)
         \/ StartBuildCommand(p)
         \/ StartTrust(p)
         \/ StartCreateSession(p)
         \/ StartSetEnvironment(p)
         \/ StartTheme(p)
         \/ StartWaitForCommand(p)
         \/ StartAcceptBypass(p)
         \/ StartCopilotReady(p)
         \/ StartStartupNudge(p)
         \/ StartFallback(p)
         \/ StartWaitReady(p)
         \/ StartPropulsionNudge(p)
    \/ AgentUp
    \/ AgentSettle

SpecStartRace == StartRaceInit /\ [][StartRaceNext]_vars

\* the session that p's NewSessionWithCommand created
CreatedBy(p) == {s \in sessions : s.name = SessionName /\ s.gen = loc[p].gen}

\* C39: when two calls of Start interleave, the session one of them created is not
\* killed by the other, neither by its zombie check nor by its cleanup after a failed
\* wait for the command: a call that returned nil finds the session it created.
C39_CreatedSessionSurvivesOtherStart ==
    \A p \in Racers :
        (pc[p] = "done" /\ result[p] = "nil") => CreatedBy(p) # {}

\* the two ways of C39, each a reachable state: q's zombie check killed the session p
\* had created while its agent was starting; q's cleanup killed the session of p
C39_KilledByZombieCheck ==
    \E p, q \in Racers :
        /\ p # q
        /\ pc[p] \notin {"idle", "done"} /\ DidOp(p, "NewSessionWithCommand")
        /\ CreatedBy(p) = {}
        /\ \E i \in DOMAIN log[q] : log[q][i].op = "KillSession" /\ log[q][i].ok
        /\ ~DidOp(q, "NewSessionWithCommand")

C39_KilledByCleanup ==
    \E p, q \in Racers :
        /\ p # q
        /\ pc[p] = "done" /\ result[p] = "nil"
        /\ CreatedBy(p) = {}
        /\ \E i \in DOMAIN log[q] :
              log[q][i].op = "KillSessionWithProcesses" /\ log[q][i].ok
        /\ \A i \in DOMAIN log[q] : log[q][i].op # "KillSession"

============================================================================
